---- MODULE Spec2Model ----
(***************************************************************************)
(* A model of the event-driven command loop of cozmini: the event log      *)
(* (event_messages.py), the rendering of drained events (process_events),  *)
(* the Completer retry loop (generate_response), the dispatch of tool      *)
(* calls (CozmoAPIBase.execute_tool_calls), the voice thread               *)
(* (VoiceInput.wait_keyword_loop) and the turn loop (cozmo_program).       *)
(*                                                                         *)
(* Python strings are sequences of one-character strings, so that strip,   *)
(* lower, split and startswith are computed, not assumed.                  *)
(***************************************************************************)
EXTENDS Integers, Sequences, FiniteSets, TLC

VARIABLES
    event_list,      \* EventMessages.event_list: the pending events
    event_context,   \* process_events: the rendered context it returned
    stop,            \* process_events: the stop flag it returned
    drained,         \* the batch the last pop_all_events of process_events returned
    pe_pc,           \* SpecEvents: "call" before process_events ran, "done" after
    g_system_messages, \* cozmini.py: the global _system_messages (unbound at first: empty)
    list_gen,        \* SpecLog: identity of the list object bound to self.event_list
    thr,             \* SpecLog: per thread, its position in message / pop_all_events and its locals
    appended,        \* SpecLog: the events appended so far, in the order the appends took effect
    returned,        \* SpecLog: the lists pop_all_events has returned, in order of return
    n_calls,         \* SpecLog: message and pop_all_events calls started so far
    tool_calls,      \* execute_tool_calls: the batch it was given
    d_pc,            \* execute_tool_calls: "start", "loop", "record", "returned"
    d_idx,           \* execute_tool_calls: position of the for loop in tool_calls
    results,         \* execute_tool_calls: the local list results
    image,           \* CozmoAPIBase.image
    pending,         \* execute_tool_calls: the outcome dict built for the current call
    ret,             \* execute_tool_calls: the pair it returned
    calls_log,       \* what each loop iteration did: index, method invoked or not, its behaviour
    t_pc,            \* cozmo_program: position of the turn loop
    turn,            \* cozmo_program: turns completed
    new_prompt,      \* cozmo_program: the prompt of the current turn
    attempt_log,     \* generate_response: the Completer calls of this turn, counted by outcome
    slept,           \* generate_response: seconds spent in time.sleep during this turn
    gen_ret,         \* generate_response: the pair (output, tool_calls) it returned
    t_image,         \* cozmo_program: the local variable image
    conversation_history, \* cozmo_program: the in-memory transcript
    history,         \* what this session wrote to the conversation history file
    ui_messages,     \* the texts given to UserInterface.output_messges, in order
    trigger_listen,  \* VoiceInput.trigger_listen
    v_pc,            \* wait_keyword_loop: position of the voice thread
    v_capture,       \* wait_keyword_loop: locals of the capture in flight
    n_inputs,        \* typed inputs and wake words so far
    command_string,  \* execute_commands: the lines of the text it was given
    api_class,       \* the members of the capability class, in definition order
    api_description, \* what get_api_description returned
    function_declarations, \* what get_function_declarations returned
    files,           \* consolidate_memory: the files it opens, by role
    files0,          \* the same files as they were before consolidate_memory ran
    cm               \* consolidate_memory: position, what it was answered, what it returned

eventsVars == <<event_context, stop, drained, pe_pc, g_system_messages>>
logVars == <<list_gen, thr, appended, returned, n_calls>>
dispVars == <<tool_calls, d_pc, d_idx, results, image, pending, ret, calls_log>>
turnVars == <<t_pc, turn, new_prompt, attempt_log, slept, gen_ret, t_image,
              conversation_history, history, ui_messages>>
voiceVars == <<trigger_listen, v_pc, v_capture, n_inputs>>
commandVars == <<command_string>>
catalogVars == <<api_class, api_description, function_declarations>>
memoryVars == <<files, files0, cm>>
vars == <<event_list, eventsVars, logVars, dispVars, turnVars, voiceVars, commandVars,
          catalogVars, memoryVars>>

\* what each specification leaves alone
notEventsVars == <<logVars, dispVars, turnVars, voiceVars, commandVars, catalogVars,
                   memoryVars>>
notLogVars == <<eventsVars, dispVars, turnVars, voiceVars, commandVars, catalogVars,
                memoryVars>>
notDispVars == <<eventsVars, logVars, turnVars, v_pc, v_capture, n_inputs, commandVars,
                 catalogVars, memoryVars>>
notTurnVars == <<logVars, pe_pc, d_pc, d_idx, pending, ret, commandVars, catalogVars,
                 memoryVars>>
notCommandVars == <<eventsVars, logVars, turnVars, v_pc, v_capture, n_inputs, tool_calls,
                    pending, catalogVars, memoryVars>>

\* the variables of SpecEvents, at rest
EventsIdle ==
    /\ event_context = <<>>
    /\ stop = FALSE
    /\ drained = <<>>
    /\ pe_pc = "off"
    /\ g_system_messages = {}

\* the variables of SpecMemory, at rest
MemoryIdle ==
    /\ files = <<>>
    /\ files0 = <<>>
    /\ cm = <<>>

\* the variables of SpecCommands and of SpecCatalog, at rest
CommandIdle ==
    /\ command_string = <<>>
    /\ api_class = <<>>
    /\ api_description = <<>>
    /\ function_declarations = <<>>

\* the variables of SpecLog, at rest
LogIdle ==
    /\ list_gen = 0
    /\ thr = <<>>
    /\ appended = <<>>
    /\ returned = <<>>
    /\ n_calls = [message |-> 0, pop_all_events |-> 0]

\* the variables of SpecDispatch, at rest
DispIdle ==
    /\ tool_calls = <<>>
    /\ d_pc = "off"
    /\ d_idx = 0
    /\ results = <<>>
    /\ image = "None"
    /\ pending = <<>>
    /\ ret = <<>>
    /\ calls_log = <<>>

\* the variables of SpecTurn, at rest
TurnIdle ==
    /\ t_pc = "off"
    /\ turn = 0
    /\ new_prompt = <<>>
    /\ attempt_log = <<>>
    /\ slept = 0
    /\ gen_ret = <<>>
    /\ t_image = "None"
    /\ conversation_history = <<>>
    /\ history = <<>>
    /\ ui_messages = <<>>
    /\ trigger_listen = FALSE
    /\ v_pc = "off"
    /\ v_capture = <<>>
    /\ n_inputs = [typed |-> 0, wake |-> 0]

(***************************************************************************)
(* Strings.                                                                *)
(***************************************************************************)
sBye == <<"b", "y", "e">>
sByeUpper == <<" ", "B", "Y", "E", " ", "\n">>
sByeThere == <<"B", "y", "e", " ", "t", "h", "e", "r", "e">>
sHi == <<"h", "i">>
sLow == <<"l", "o", "w">>
sTagBye == <<"[", "u", "n", "r", "e", "c", "o", "g", "n", "i", "z", "e", "d", "]", ":", " ", "b", "y", "e">>
sAliceHi == <<"A", "l", "i", "c", "e", ":", " ", "h", "i">>
sUser1Hi == <<"U", "s", "e", "r", "1", ":", " ", "h", "i">>
sUserSays == <<"U", "s", "e", "r", " ", "s", "a", "y", "s", ":", " ">>
sUser == <<"U", "s", "e", "r">>
sColonSpace == <<":", " ">>
sNewline == <<"\n">>
sSysOpen == <<"S", "y", "s", "t", "e", "m", " ", "m", "e", "s", "s", "a", "g", "e", " ", "(">>
sSysClose == <<")", ":", " ">>
sStopped == <<"C", "o", "z", "m", "o", " ", "s", "t", "o", "p", "p", "e", "d", " ", "l", "i", "s", "t", "e", "n", "i", "n", "g", ".">>
sListening == <<"L", "i", "s", "t", "e", "n", "i", "n", "g", ".", ".", ".">>
sStoppedListening == <<"S", "t", "o", "p", "p", "e", "d", " ", "l", "i", "s", "t", "e", "n", "i", "n", "g">>
\* datetime.now().strftime("%H:%M:%S"): one value of the clock
sNow == <<"1", "2", ":", "0", "0", ":", "0", "0">>

\* _API_PROMPT
API_PROMPT == <<"A", "P", "I", " ", "c", "a", "l", "l", "s">>

UpperLetters == <<"A","B","C","D","E","F","G","H","I","J","K","L","M",
                  "N","O","P","Q","R","S","T","U","V","W","X","Y","Z">>
LowerLetters == <<"a","b","c","d","e","f","g","h","i","j","k","l","m",
                  "n","o","p","q","r","s","t","u","v","w","x","y","z">>

\* the characters str.strip() removes
Whitespace == {" ", "\n", "\t", "\r"}

LowerChar(c) ==
    IF \E i \in DOMAIN UpperLetters : UpperLetters[i] = c
    THEN LowerLetters[CHOOSE i \in DOMAIN UpperLetters : UpperLetters[i] = c]
    ELSE c

\* str.lower()
lower(s) == [i \in DOMAIN s |-> LowerChar(s[i])]

\* str.strip(): drops the leading and the trailing whitespace
strip(s) ==
    LET keep == {i \in DOMAIN s : s[i] \notin Whitespace}
    IN IF keep = {} THEN <<>>
       ELSE LET first == CHOOSE i \in keep : \A j \in keep : i <= j
                last == CHOOSE i \in keep : \A j \in keep : j <= i
            IN SubSeq(s, first, last)

\* str.startswith(prefix)
startswith(s, prefix) ==
    /\ Len(prefix) <= Len(s)
    /\ SubSeq(s, 1, Len(prefix)) = prefix

\* str.endswith(suffix)
endswith(s, suffix) ==
    /\ Len(suffix) <= Len(s)
    /\ SubSeq(s, Len(s) - Len(suffix) + 1, Len(s)) = suffix

\* the positions at which sub occurs in s
Occurrences(s, sub) ==
    {i \in 1..(Len(s) - Len(sub) + 1) : SubSeq(s, i, i + Len(sub) - 1) = sub}

\* sub in s
contains(s, sub) == Occurrences(s, sub) # {}

\* s.split(sub, 1)[0]: the text before the first occurrence of sub
split_first(s, sub) ==
    IF ~contains(s, sub) THEN s
    ELSE LET i == CHOOSE k \in Occurrences(s, sub) :
                      \A j \in Occurrences(s, sub) : k <= j
         IN SubSeq(s, 1, i - 1)

(***************************************************************************)
(* event_messages.py                                                       *)
(***************************************************************************)
USER_MESSAGE == "USER_MESSAGE"
API_CALL == "API_CALL"
API_RESULT == "API_RESULT"
SYSTEM_MESSAGE == "SYSTEM_MESSAGE"
VOICE_EVENT_LISTENING == "VOICE_EVENT_LISTENING"
VOICE_EVENT_FINISHED == "VOICE_EVENT_FINISHED"

EventType == {USER_MESSAGE, API_CALL, API_RESULT, SYSTEM_MESSAGE,
              VOICE_EVENT_LISTENING, VOICE_EVENT_FINISHED}

\* an event is the pair (event_type, event_message)
Event(event_type, event_message) == <<event_type, event_message>>

(***************************************************************************)
(* cozmini.py: process_events                                              *)
(***************************************************************************)
\* line 122: message.lower() == 'bye', message already stripped
IsStopKeyword_CaseSensitive(message) == message = sBye

IsStopKeyword_Prefix(message) == startswith(lower(message), sBye)

IsStopKeyword(message) == lower(message) = sBye

\* any text before a ': ' taken as a speaker tag
has_speaker_id_AnyPrefix(message) == contains(message, sColonSpace)

\* lines 126-134: the message already carries a speaker tag
has_speaker_id(message) ==
    /\ contains(message, sColonSpace)
    /\ LET potential_speaker == split_first(message, sColonSpace)
       IN \/ /\ startswith(potential_speaker, <<"[">>)
             /\ endswith(potential_speaker, <<"]">>)
          \/ /\ Len(potential_speaker) < 30
             /\ ~startswith(potential_speaker, sUser)

\* lines 121-139: the text a USER_MESSAGE adds to the context
RenderUser(message) ==
    IF has_speaker_id(message)
    THEN message \o sNewline
    ELSE sUserSays \o message \o sNewline

\* line 145 and line 148
RenderSystem(time, message) ==
    sSysOpen \o time \o sSysClose \o message \o sNewline

\* lines 121-123: only a USER_MESSAGE is tested for the keyword
StopsOn(message_type, message) ==
    message_type = USER_MESSAGE /\ IsStopKeyword(message)

\* the test of line 144 left out: every SYSTEM_MESSAGE is rendered
already_rendered_Never(message, system_messages) == FALSE

\* line 144: message in _system_messages
already_rendered(message, system_messages) == message \in system_messages

\* the branch of lines 142-143 as it is written in the comment: a system line
RenderResult_AsSystemMessage(time, message) ==
    sSysOpen \o time \o sSysClose \o message \o sNewline

\* lines 142-143: the API_RESULT branch is commented out, the event adds no text
RenderResult(time, message) == <<>>

\* lines 119-148: the loop over the drained events
RECURSIVE process_events_loop(_, _, _, _, _)
process_events_loop(events, time, context, stp, system_messages) ==
    IF events = <<>>
    THEN [context |-> context, stop |-> stp, system_messages |-> system_messages]
    ELSE LET message_type == Head(events)[1]
             message == strip(Head(events)[2])
             rest == Tail(events)
             nstop == stp \/ StopsOn(message_type, message)
         IN CASE message_type = USER_MESSAGE ->
                   process_events_loop(rest, time, context \o RenderUser(message),
                                       nstop, system_messages)
              [] message_type = API_CALL ->
                   process_events_loop(rest, time,
                       context \o API_PROMPT \o sColonSpace \o message \o sNewline,
                       nstop, system_messages)
              [] message_type = API_RESULT ->
                   process_events_loop(rest, time, context \o RenderResult(time, message),
                                       nstop, system_messages)
              [] message_type = SYSTEM_MESSAGE /\ ~already_rendered(message, system_messages) ->
                   process_events_loop(rest, time,
                       context \o RenderSystem(time, message),
                       nstop, system_messages \cup {message})
              [] message_type = VOICE_EVENT_FINISHED ->
                   process_events_loop(rest, time,
                       context \o RenderSystem(time, sStopped),
                       nstop, system_messages)
              [] OTHER ->
                   process_events_loop(rest, time, context, nstop, system_messages)

\* the rendering started with the texts the call before left in _system_messages
process_events_SessionSet(events, time) ==
    process_events_loop(events, time, <<>>, FALSE, g_system_messages)

\* lines 111-150: context, stop for a drained batch; _system_messages starts empty
process_events(events, time) ==
    process_events_loop(events, time, <<>>, FALSE, {})

(***************************************************************************)
(* SpecEvents: process_events applied to every batch of pending events.    *)
(***************************************************************************)
MaxBatch == 2

UserTexts == {sBye, sByeUpper, sByeThere, sHi, sTagBye, sAliceHi, sUser1Hi}

ModelEvents ==
    {Event(USER_MESSAGE, t) : t \in UserTexts}
    \cup {Event(SYSTEM_MESSAGE, t) : t \in {sBye, sLow}}
    \cup {Event(API_CALL, sHi), Event(API_RESULT, sBye),
          Event(VOICE_EVENT_LISTENING, sListening),
          Event(VOICE_EVENT_FINISHED, sStoppedListening)}

EventBatches == UNION {[1..n -> ModelEvents] : n \in 0..MaxBatch}

InitEvents ==
    /\ MemoryIdle
    /\ CommandIdle
    /\ event_list \in EventBatches
    /\ event_context = <<>>
    /\ stop = FALSE
    /\ drained = <<>>
    /\ pe_pc = "call"
    /\ g_system_messages = {}
    /\ LogIdle
    /\ DispIdle
    /\ TurnIdle

\* event_log.pop_all_events() followed by the rendering loop
ProcessEventsCall ==
    /\ pe_pc = "call"
    /\ LET r == process_events(event_list, sNow)
       IN /\ event_context' = r.context
          /\ stop' = r.stop
          /\ g_system_messages' = r.system_messages
    /\ drained' = event_list
    /\ event_list' = <<>>
    /\ pe_pc' = "done"
    /\ UNCHANGED notEventsVars

NextEvents == ProcessEventsCall

SpecEvents == InitEvents /\ [][NextEvents]_vars

\* t is the keyword 'bye' in any case, with whitespace around it and nothing else
IsByeModuloCaseAndSpace(t) ==
    \E i \in 1..Len(t) :
        /\ i + 2 <= Len(t)
        /\ t[i] \in {"b", "B"}
        /\ t[i+1] \in {"y", "Y"}
        /\ t[i+2] \in {"e", "E"}
        /\ \A k \in 1..Len(t) : (k < i \/ k > i + 2) => t[k] \in Whitespace

\* C8: process_events returns stop = true exactly when some drained USER_MESSAGE
\* has a text that, trimmed and with case ignored, is the keyword 'bye'.
C8_StopIffByeMessage ==
    pe_pc = "done" =>
        (stop <=> \E i \in 1..Len(drained) :
                      /\ drained[i][1] = USER_MESSAGE
                      /\ IsByeModuloCaseAndSpace(drained[i][2]))

\* a batch with an upper-case, padded 'bye' among other events was processed
C8_Witness ==
    /\ pe_pc = "done"
    /\ stop
    /\ Len(drained) = 2
    /\ \E i \in 1..Len(drained) : drained[i] = Event(USER_MESSAGE, sByeUpper)

\* C9 as stated: a single USER_MESSAGE 'Bye there' makes process_events return stop = true.
C9_ByeThereStops ==
    (pe_pc = "done" /\ drained = <<Event(USER_MESSAGE, sByeThere)>>) => stop

\* C9 amended: a single USER_MESSAGE whose text is the keyword followed by further
\* words ('Bye there') makes process_events return stop = false.
C9_ByeThereDoesNotStop ==
    (pe_pc = "done" /\ drained = <<Event(USER_MESSAGE, sByeThere)>>) => ~stop

\* process_events has run on the single message 'Bye there'
C9_Witness ==
    /\ pe_pc = "done"
    /\ drained = <<Event(USER_MESSAGE, sByeThere)>>
    /\ event_context = sUserSays \o sByeThere \o sNewline

(***************************************************************************)
(* SpecLog: EventMessages.message and pop_all_events called from several   *)
(* threads.  No lock guards event_list, so a thread may be preempted       *)
(* between the bytecodes of a statement: between loading self.event_list   *)
(* and appending to it, and between the statements and the slice and the   *)
(* store of pop_all_events.  A list object that self.event_list no longer  *)
(* names is never read again, so only its identity (list_gen) is kept.     *)
(***************************************************************************)
MaxAppends == 3
MaxDrains == 2

\* the turn loop, the voice thread and a request thread of the web interface
LogThreads == {"turn", "voice", "ui"}

\* a thread between two calls; ev, called, propagated: what its last message call was
\* given, the callbacks it invoked, and whether an exception left the call
ThreadIdle ==
    [pc |-> "idle", ev |-> <<>>, gen |-> 0, n |-> 0, pop |-> <<>>, rest |-> <<>>,
     called |-> <<>>, propagated |-> FALSE]

\* self.event_callbacks: handle_event (cozmini.py) and CozmoAPI._event_calback, as registered
event_callbacks == <<"handle_event", "_event_calback">>

\* the callbacks that drive the robot for this event, and so may raise
may_raise(callback, event_type) ==
    event_type \in {VOICE_EVENT_LISTENING, VOICE_EVENT_FINISHED}

\* the callback whose call raises for this event: a position in event_callbacks, 0 for none
Raisers(event_type) ==
    {0} \cup {i \in DOMAIN event_callbacks : may_raise(event_callbacks[i], event_type)}

\* lines 23-24: the callbacks are called in order; the first exception ends the loop
\* and leaves message
notify(callbacks, raiser) ==
    [called |-> IF raiser = 0 THEN callbacks ELSE SubSeq(callbacks, 1, raiser),
     propagated |-> raiser # 0]

\* the event a thread publishes: the voice thread its recording events, the others texts
EventTypeOf(t) == IF t = "voice" THEN VOICE_EVENT_LISTENING ELSE USER_MESSAGE

\* list[:n]
SliceTo(list, n) == SubSeq(list, 1, IF n < Len(list) THEN n ELSE Len(list))

\* the whole list kept: nothing is removed
SliceFrom_All(list, n) == list

\* list[n:]
SliceFrom(list, n) == SubSeq(list, n + 1, Len(list))

InitLog ==
    /\ MemoryIdle
    /\ CommandIdle
    /\ event_list = <<>>
    /\ list_gen = 0
    /\ thr = [t \in LogThreads |-> ThreadIdle]
    /\ appended = <<>>
    /\ returned = <<>>
    /\ n_calls = [message |-> 0, pop_all_events |-> 0]
    /\ EventsIdle
    /\ DispIdle
    /\ TurnIdle

\* message, line 22: self.event_list is loaded; the k-th call carries the text k
MessageLoad(t) ==
    /\ thr[t].pc = "idle"
    /\ n_calls.message < MaxAppends
    /\ n_calls' = [n_calls EXCEPT !.message = @ + 1]
    /\ thr' = [thr EXCEPT ![t] = [ThreadIdle EXCEPT
                                      !.pc = "append",
                                      !.ev = Event(EventTypeOf(t), n_calls.message + 1),
                                      !.gen = list_gen]]
    /\ UNCHANGED <<event_list, list_gen, appended, returned, notLogVars>>

\* message, line 22: append to the list object that was loaded
MessageAppend(t) ==
    /\ thr[t].pc = "append"
    /\ event_list' = IF thr[t].gen = list_gen
                     THEN Append(event_list, thr[t].ev)
                     ELSE event_list
    /\ appended' = Append(appended, thr[t].ev)
    /\ thr' = [thr EXCEPT ![t] = [@ EXCEPT !.pc = "callbacks"]]
    /\ UNCHANGED <<list_gen, returned, n_calls, notLogVars>>

\* message, lines 23-24: the registered callbacks run; they do not touch the log
MessageCallbacks(t) ==
    /\ thr[t].pc = "callbacks"
    /\ \E raiser \in Raisers(thr[t].ev[1]) :
          LET r == notify(event_callbacks, raiser)
          IN thr' = [thr EXCEPT ![t] = [ThreadIdle EXCEPT !.ev = thr[t].ev,
                                                          !.called = r.called,
                                                          !.propagated = r.propagated]]
    /\ UNCHANGED <<event_list, list_gen, appended, returned, n_calls, notLogVars>>

\* pop_all_events, line 28: n = len(self.event_list)
PopLen(t) ==
    /\ thr[t].pc = "idle"
    /\ n_calls.pop_all_events < MaxDrains
    /\ n_calls' = [n_calls EXCEPT !.pop_all_events = @ + 1]
    /\ thr' = [thr EXCEPT ![t] = [ThreadIdle EXCEPT !.pc = "slice",
                                                    !.n = Len(event_list)]]
    /\ UNCHANGED <<event_list, list_gen, appended, returned, notLogVars>>

\* pop_all_events, line 30: pop = self.event_list[:n]
PopSlice(t) ==
    /\ thr[t].pc = "slice"
    /\ thr' = [thr EXCEPT ![t] = [@ EXCEPT !.pc = "rest",
                                           !.pop = SliceTo(event_list, thr[t].n)]]
    /\ UNCHANGED <<event_list, list_gen, appended, returned, n_calls, notLogVars>>

\* pop_all_events, line 32, right-hand side: self.event_list[n:]
PopRest(t) ==
    /\ thr[t].pc = "rest"
    /\ thr' = [thr EXCEPT ![t] = [@ EXCEPT !.pc = "store",
                                           !.rest = SliceFrom(event_list, thr[t].n)]]
    /\ UNCHANGED <<event_list, list_gen, appended, returned, n_calls, notLogVars>>

\* pop_all_events, lines 32-34: the new list is bound to self.event_list, pop is returned
PopStore(t) ==
    /\ thr[t].pc = "store"
    /\ event_list' = thr[t].rest
    /\ list_gen' = list_gen + 1
    /\ returned' = Append(returned, thr[t].pop)
    /\ thr' = [thr EXCEPT ![t] = ThreadIdle]
    /\ UNCHANGED <<appended, n_calls, notLogVars>>

NextLog ==
    \E t \in LogThreads :
        \/ MessageLoad(t)
        \/ MessageAppend(t)
        \/ MessageCallbacks(t)
        \/ PopLen(t)
        \/ PopSlice(t)
        \/ PopRest(t)
        \/ PopStore(t)

SpecLog == InitLog /\ [][NextLog]_vars

RECURSIVE Flatten(_)
Flatten(lists) == IF lists = <<>> THEN <<>> ELSE Head(lists) \o Flatten(Tail(lists))

Count(x, list) == Cardinality({i \in DOMAIN list : list[i] = x})

\* the position of x in list
IndexOf(x, list) == CHOOSE i \in DOMAIN list : list[i] = x

\* C1: once every call has returned, each appended event is in exactly one returned
\* drain or still pending (none lost, none duplicated), and every drain holds its
\* events in the order in which they were appended.
C1_EachEventInExactlyOneDrain ==
    (\A t \in LogThreads : thr[t].pc = "idle") =>
        /\ \A k \in DOMAIN appended :
               Count(appended[k], Flatten(returned) \o event_list) = 1
        /\ \A d \in DOMAIN returned :
               \A i, j \in DOMAIN returned[d] :
                   (i < j /\ Count(returned[d][i], appended) = 1
                          /\ Count(returned[d][j], appended) = 1) =>
                       IndexOf(returned[d][i], appended) < IndexOf(returned[d][j], appended)

(***************************************************************************)
(* cozmo_api_base.py: format_tool_call and execute_tool_calls              *)
(***************************************************************************)
n_cozmo_says == <<"c", "o", "z", "m", "o", "_", "s", "a", "y", "s">>
n_cozmo_drives == <<"c", "o", "z", "m", "o", "_", "d", "r", "i", "v", "e", "s">>
n_cozmo_captures_image == <<"c", "o", "z", "m", "o", "_", "c", "a", "p", "t", "u", "r", "e", "s", "_", "i", "m", "a", "g", "e">>
n_cozmo_listens == <<"c", "o", "z", "m", "o", "_", "l", "i", "s", "t", "e", "n", "s">>
n_set_user_input == <<"s", "e", "t", "_", "u", "s", "e", "r", "_", "i", "n", "p", "u", "t">>
n_restore_backpack_lights == <<"r", "e", "s", "t", "o", "r", "e", "_", "b", "a", "c", "k", "p", "a", "c", "k", "_", "l", "i", "g", "h", "t", "s">>
n_image == <<"i", "m", "a", "g", "e">>
n_no_such_fn == <<"n", "o", "_", "s", "u", "c", "h", "_", "f", "n">>
p_text == <<"t", "e", "x", "t">>
p_distance == <<"d", "i", "s", "t", "a", "n", "c", "e">>
p_speed == <<"s", "p", "e", "e", "d">>
p_user_input == <<"u", "s", "e", "r", "_", "i", "n", "p", "u", "t">>
p_x == <<"x">>
sTen == <<"1", "0">>
sHiX1 == <<"h", "i", ",", " ", "x", "=", "1">>
sOne == <<"1">>
sSucceeded == <<"s", "u", "c", "c", "e", "e", "d", "e", "d">>
sSucceededDot == <<"s", "u", "c", "c", "e", "e", "d", "e", "d", ".">>
sFailedColon == <<"F", "a", "i", "l", "e", "d", ":", " ">>
sFailedDot == <<"F", "a", "i", "l", "e", "d", ".">>
sErrorColon == <<"e", "r", "r", "o", "r", ":", " ">>
sIndent == <<" ", " ", " ", " ">>
sArrow == <<" ", "-", ">", " ">>
sCommaSpace == <<",", " ">>
sNoMethod1 == <<"C", "l", "a", "s", "s", " ", "i", "n", "s", "t", "a", "n", "c", "e", " ", "d", "o", "e", "s", " ", "n", "o", "t", " ", "h", "a", "v", "e", " ", "a", " ", "c", "a", "l", "l", "a", "b", "l", "e", " ", "m", "e", "t", "h", "o", "d", " ", "n", "a", "m", "e", "d", " ", "'">>
sNoMethod2 == <<"'", ".">>
sMissing1 == <<"R", "e", "q", "u", "i", "r", "e", "d", " ", "p", "a", "r", "a", "m", "e", "t", "e", "r", " ", "'">>
sMissing2 == <<"'", " ", "m", "i", "s", "s", "i", "n", "g", " ", "f", "o", "r", " ", "f", "u", "n", "c", "t", "i", "o", "n", " ", "'">>
sDrove1 == <<"C", "o", "z", "m", "o", " ", "d", "r", "o", "v", "e", " ">>
sDrove2 == <<" ", "m", "m", " ", "a", "t", " ">>
sDrove3 == <<" ", "m", "m", "p", "s", ".">>
sBusy == <<"b", "u", "s", "y">>
sRobotError == <<"r", "o", "b", "o", "t", " ", "e", "r", "r", "o", "r">>
sNone == <<"N", "o", "n", "e">>
sDotZero == <<".", "0">>
sQuote == <<"\"">>

\* Python values, each with the text str() gives for it
PyStr(s) == [kind |-> "str", text |-> s]
PyFloat(repr) == [kind |-> "float", text |-> repr]
PyNone == [kind |-> "None", text |-> sNone]

\* a dict is the sequence of its (key, value) pairs, in insertion order
HasKey(d, k) == \E i \in DOMAIN d : d[i][1] = k
Get(d, k) == d[CHOOSE i \in DOMAIN d : d[i][1] = k][2]

Digits == {"0", "1", "2", "3", "4", "5", "6", "7", "8", "9"}

\* float(s) accepts s: an optional sign and decimal digits, whitespace around them
IsNumeric(s) ==
    LET t == strip(s)
        body == IF t # <<>> /\ t[1] = "-" THEN Tail(t) ELSE t
    IN body # <<>> /\ \A i \in DOMAIN body : body[i] \in Digits

\* lines 151-154: float(value), or on ValueError the value's text in double quotes
Coerce(value) ==
    IF value.kind = "float" THEN value
    ELSE IF IsNumeric(value.text) THEN PyFloat(strip(value.text) \o sDotZero)
    ELSE PyStr(sQuote \o value.text \o sQuote)

\* a parameter of a method's signature; required: it has no default
Param(name, required) == [name |-> name, required |-> required]

\* the attributes of the capability object a tool call can name:
\* the actions of cozmo_api.py, and what CozmoAPIBase itself defines
Attributes ==
    { [name |-> n_cozmo_says, callable |-> TRUE, params |-> <<Param(p_text, TRUE)>>],
      [name |-> n_cozmo_drives, callable |-> TRUE,
       params |-> <<Param(p_distance, TRUE), Param(p_speed, TRUE)>>],
      [name |-> n_cozmo_captures_image, callable |-> TRUE, params |-> <<>>],
      [name |-> n_cozmo_listens, callable |-> TRUE, params |-> <<>>],
      [name |-> n_set_user_input, callable |-> TRUE, params |-> <<Param(p_user_input, TRUE)>>],
      [name |-> n_restore_backpack_lights, callable |-> TRUE, params |-> <<>>],
      [name |-> n_image, callable |-> FALSE, params |-> <<>>] }

hasattr(name) == \E a \in Attributes : a.name = name
getattr(name) == CHOOSE a \in Attributes : a.name = name

\* cozmo_api.py, get_api_description, line 23: the catalog lists the callable
\* attributes whose name starts with 'cozmo_'
sCozmoPrefix == <<"c", "o", "z", "m", "o", "_">>
IsCatalogAction(function_name) ==
    /\ hasattr(function_name)
    /\ getattr(function_name).callable
    /\ startswith(function_name, sCozmoPrefix)

\* line 142 with the callable test left out
IsCallableMethod_HasattrOnly(function_name) == hasattr(function_name)

\* line 142: hasattr(self, function_name) and callable(getattr(self, function_name))
IsCallableMethod(function_name) ==
    hasattr(function_name) /\ getattr(function_name).callable

\* every parameter taken as optional
IsRequired_Never(param) == FALSE

\* line 157: param.default is inspect.Parameter.empty
IsRequired(param) == param.required

\* every supplied argument prepared, whether the signature declares its name or not
prepare_args_AllSupplied(params, function_args, function_name, valid_args) ==
    [raised |-> FALSE,
     valid_args |-> [i \in DOMAIN function_args |->
                        <<function_args[i][1], Coerce(function_args[i][2])>>],
     error |-> <<>>]

\* lines 149-159: the arguments prepared from the signature, or the ValueError raised
RECURSIVE prepare_args(_, _, _, _)
prepare_args(params, function_args, function_name, valid_args) ==
    IF params = <<>>
    THEN [raised |-> FALSE, valid_args |-> valid_args, error |-> <<>>]
    ELSE LET param == Head(params)
         IN IF HasKey(function_args, param.name)
            THEN prepare_args(Tail(params), function_args, function_name,
                     Append(valid_args,
                            <<param.name, Coerce(Get(function_args, param.name))>>))
            ELSE IF IsRequired(param)
            THEN [raised |-> TRUE, valid_args |-> valid_args,
                  error |-> sMissing1 \o param.name \o sMissing2
                            \o function_name \o sNoMethod2]
            ELSE prepare_args(Tail(params), function_args, function_name, valid_args)

\* what the robot does with an action once the method is invoked
Behaviours(function_name) ==
    IF function_name \in {n_cozmo_says, n_cozmo_drives}
    THEN {"succeeded", "failed", "timeout", "raises"}
    ELSE IF function_name = n_cozmo_captures_image
    THEN {"succeeded", "failed"}
    ELSE {"succeeded"}

\* action.wait_for_completed(timeout=_DEFAULT_TIMEOUT): raises when the wait expires
wait_for_completed_raises(behaviour) == behaviour = "timeout"

\* the methods of the capability object: what the call returns or raises,
\* and self.image after it
method_to_call(function_name, valid_args, behaviour, img) ==
    IF wait_for_completed_raises(behaviour)
    THEN [raised |-> TRUE, result |-> PyNone, error |-> <<>>, image |-> img]
    ELSE IF behaviour = "raises"
    THEN [raised |-> TRUE, result |-> PyNone, error |-> sRobotError, image |-> img]
    ELSE IF function_name = n_cozmo_says
    THEN [raised |-> FALSE,
          result |-> IF behaviour = "succeeded" THEN PyStr(sSucceededDot)
                     ELSE PyStr(sFailedColon \o sBusy),
          error |-> <<>>, image |-> img]
    ELSE IF function_name = n_cozmo_drives
    THEN [raised |-> FALSE,
          result |-> IF behaviour = "succeeded"
                     THEN PyStr(sDrove1 \o Get(valid_args, p_distance).text
                                \o sDrove2 \o Get(valid_args, p_speed).text \o sDrove3)
                     ELSE PyStr(sFailedColon \o sBusy),
          error |-> <<>>, image |-> img]
    ELSE IF function_name = n_cozmo_captures_image
    THEN [raised |-> FALSE,
          result |-> IF behaviour = "succeeded" THEN PyStr(<<>>) ELSE PyStr(sFailedDot),
          error |-> <<>>,
          image |-> IF behaviour = "succeeded" THEN "frame" ELSE "None"]
    ELSE IF function_name = n_cozmo_listens
    THEN [raised |-> FALSE, result |-> PyStr(<<>>), error |-> <<>>, image |-> img]
    ELSE [raised |-> FALSE, result |-> PyNone, error |-> <<>>, image |-> img]

\* cozmo_listens calls VoiceInput.capture_user_input, which sets trigger_listen
requests_capture(function_name) == function_name = n_cozmo_listens

\* lines 176-181: the dict built in the except branch
FailureOutcome(function_name, function_args, error) ==
    [function_name |-> function_name, args |-> function_args, success |-> FALSE,
     result |-> PyNone, error |-> error]

\* lines 164-169: the dict built after the method returned
SuccessOutcome(function_name, valid_args, result) ==
    [function_name |-> function_name, args |-> valid_args, success |-> TRUE,
     result |-> result, error |-> <<>>]

\* ", ".join(f"{k}={str(v)}" for k, v in args.items())
RECURSIVE join_args(_)
join_args(args) ==
    IF args = <<>> THEN <<>>
    ELSE Head(args)[1] \o <<"=">> \o Head(args)[2].text
         \o (IF Tail(args) = <<>> THEN <<>> ELSE sCommaSpace \o join_args(Tail(args)))

\* lines 10-25 (and cozmini.py lines 153-168)
format_tool_call(tool_call) ==
    LET tool_call_output ==
            IF tool_call.success
            THEN IF tool_call.result.kind = "None" THEN sSucceeded
                 ELSE tool_call.result.text
            ELSE sErrorColon \o tool_call.error
    IN sIndent \o tool_call.function_name \o <<"(">> \o join_args(tool_call.args)
       \o <<")">> \o sArrow \o tool_call_output \o sNewline

\* lines 139-184, one iteration up to the outcome dict: what it did and built
DispatchOne(tool_call, behaviour, img) ==
    LET function_name == tool_call.name
        function_args == tool_call.args
    IN IF ~IsCallableMethod(function_name)
       THEN [invoked |-> FALSE, raised |-> TRUE, image |-> img, listens |-> FALSE,
             outcome |-> FailureOutcome(function_name, function_args,
                             sNoMethod1 \o function_name \o sNoMethod2)]
       ELSE LET prep == prepare_args(getattr(function_name).params, function_args,
                                     function_name, <<>>)
            IN IF prep.raised
               THEN [invoked |-> FALSE, raised |-> TRUE, image |-> img, listens |-> FALSE,
                     outcome |-> FailureOutcome(function_name, function_args, prep.error)]
               ELSE LET r == method_to_call(function_name, prep.valid_args, behaviour, img)
                    IN [invoked |-> TRUE, raised |-> r.raised, image |-> r.image,
                        listens |-> ~r.raised /\ requests_capture(function_name),
                        outcome |-> IF r.raised
                                    THEN FailureOutcome(function_name, function_args, r.error)
                                    ELSE SuccessOutcome(function_name, prep.valid_args,
                                                        r.result)]

\* the behaviours an iteration can meet: those of the method when it is invoked
BehavioursOf(tool_call) ==
    IF DispatchOne(tool_call, "succeeded", "None").invoked
    THEN Behaviours(tool_call.name)
    ELSE {"not invoked"}

\* the image of the batch before kept at the start of a batch
ImageAtBatchStart_Keep(img) == img

\* line 123: self.image = None
ImageAtBatchStart(img) == "None"

\* the API_RESULT event not published when the outcome is recorded
publish_result_Nothing(log, outcome) == log

\* lines 170 and 182: event_log.message(EventType.API_RESULT, format_tool_call(tool_call))
publish_result(log, outcome) ==
    Append(log, Event(API_RESULT, format_tool_call(outcome)))

\* results.append dropped from the except branch
AppendOutcome_DropFailures(res, outcome) ==
    IF outcome.success THEN Append(res, outcome) ELSE res

\* lines 171 and 184: results.append(tool_call)
AppendOutcome(res, outcome) == Append(res, outcome)

\* the loop left at the first failure
NextIndex_StopAtFailure(idx, n, outcome) == IF outcome.success THEN idx + 1 ELSE n + 1

\* line 132: the for loop goes on to the next tool call, whatever the outcome was
NextIndex(idx, n, outcome) == idx + 1

(***************************************************************************)
(* SpecDispatch: execute_tool_calls on every batch of tool calls.          *)
(***************************************************************************)
MaxCalls == 2

ToolCall(name, args) == [name |-> name, args |-> args]

ModelToolCalls ==
    { ToolCall(n_cozmo_says, << <<p_text, PyStr(sHi)>> >>),
      ToolCall(n_cozmo_says, <<>>),
      ToolCall(n_cozmo_says, << <<p_text, PyStr(sTen)>> >>),
      ToolCall(n_cozmo_says, << <<p_text, PyStr(sHiX1)>> >>),
      ToolCall(n_cozmo_says, << <<p_text, PyStr(sHi)>>, <<p_x, PyStr(sOne)>> >>),
      ToolCall(n_cozmo_drives, << <<p_distance, PyStr(sTen)>>, <<p_speed, PyStr(sTen)>> >>),
      ToolCall(n_cozmo_captures_image, <<>>),
      ToolCall(n_cozmo_listens, <<>>),
      ToolCall(n_no_such_fn, << <<p_x, PyStr(sOne)>> >>),
      ToolCall(n_restore_backpack_lights, <<>>),
      ToolCall(n_image, <<>>) }

ToolCallBatches == UNION {[1..n -> ModelToolCalls] : n \in 0..MaxCalls}

InitDispatch ==
    /\ MemoryIdle
    /\ CommandIdle
    /\ event_list = <<>>
    /\ tool_calls \in ToolCallBatches
    /\ d_pc = "start"
    /\ d_idx = 0
    /\ results = <<>>
    /\ image \in {"None", "frame"}
    /\ pending = <<>>
    /\ ret = <<>>
    /\ calls_log = <<>>
    /\ EventsIdle
    /\ LogIdle
    /\ TurnIdle

\* lines 123-129: the image is reset; an empty batch returns at once
ExecBegin ==
    /\ d_pc = "start"
    /\ image' = ImageAtBatchStart(image)
    /\ results' = <<>>
    /\ IF tool_calls = <<>>
       THEN /\ d_pc' = "returned"
            /\ ret' = <<<<>>, "None">>
            /\ d_idx' = d_idx
       ELSE /\ d_pc' = "loop"
            /\ ret' = ret
            /\ d_idx' = 1
    /\ UNCHANGED <<event_list, tool_calls, pending, calls_log, trigger_listen, notDispVars>>

\* lines 132-169 and 175-181: the call is validated, the method invoked, the dict built
ExecCall ==
    /\ d_pc = "loop"
    /\ d_idx <= Len(tool_calls)
    /\ \E behaviour \in BehavioursOf(tool_calls[d_idx]) :
          LET d == DispatchOne(tool_calls[d_idx], behaviour, image)
          IN /\ pending' = d.outcome
             /\ image' = d.image
             /\ trigger_listen' = (trigger_listen \/ d.listens)
             /\ calls_log' = Append(calls_log,
                                [idx |-> d_idx, invoked |-> d.invoked,
                                 raised |-> d.raised, behaviour |-> behaviour])
    /\ d_pc' = "record"
    /\ UNCHANGED <<event_list, tool_calls, d_idx, results, ret, notDispVars>>

\* lines 170-171 and 182-184: the API_RESULT event is published, the dict appended
ExecRecord ==
    /\ d_pc = "record"
    /\ event_list' = publish_result(event_list, pending)
    /\ results' = AppendOutcome(results, pending)
    /\ d_idx' = NextIndex(d_idx, Len(tool_calls), pending)
    /\ d_pc' = "loop"
    /\ UNCHANGED <<tool_calls, image, pending, ret, calls_log, trigger_listen, notDispVars>>

\* line 186: return results, self.image
ExecReturn ==
    /\ d_pc = "loop"
    /\ d_idx > Len(tool_calls)
    /\ ret' = <<results, image>>
    /\ d_pc' = "returned"
    /\ UNCHANGED <<event_list, tool_calls, d_idx, results, image, pending, calls_log,
                   trigger_listen, notDispVars>>

NextDispatch == ExecBegin \/ ExecCall \/ ExecRecord \/ ExecReturn

SpecDispatch == InitDispatch /\ [][NextDispatch]_vars

\* the iterations of the log that handled the call at position i
IterationsOf(i) == {k \in DOMAIN calls_log : calls_log[k].idx = i}

\* C2: the list execute_tool_calls returns holds exactly one outcome per tool call,
\* in the order of the calls; a call that raised is recorded with success = false,
\* and every call of the batch, also after a failure, was handled exactly once.
C2_OneOutcomePerCallInOrder ==
    d_pc = "returned" =>
        /\ Len(ret[1]) = Len(tool_calls)
        /\ \A i \in DOMAIN tool_calls :
              /\ ret[1][i].function_name = tool_calls[i].name
              /\ Cardinality(IterationsOf(i)) = 1
              /\ \A k \in IterationsOf(i) : calls_log[k].raised => ~ret[1][i].success

\* a batch whose first call failed and whose second call was still invoked has returned
C2_Witness ==
    /\ d_pc = "returned"
    /\ Len(tool_calls) = 2
    /\ ~ret[1][1].success
    /\ ret[1][2].success
    /\ calls_log[2].invoked

sToday == <<"T", "o", "d", "a", "y", "'", "s", " ", "d", "a", "t", "e", " ", "i", "s", ":", " ", "0", "2", "/", "1", "1", "/", "2", "0", "2", "6">>
sUnrecognizedTag == <<"[", "u", "n", "r", "e", "c", "o", "g", "n", "i", "z", "e", "d", "]", ":", " ">>
sHeyCozmo == <<"H", "e", "y", ",", " ", "C", "o", "z", "m", "o", ".", " ">>
sHans == <<"H", "a", "n", "s">>
sColonNewline == <<":", "\n">>

\* line 41: for retrie in range(5)
RetryLimit == 5

\* line 81: time.sleep(15)
BackoffSeconds == 15

\* a part of the Completer's reply: text, a function call, or both
\* (function_call: the call in a sequence, empty when the part has none)
TextPart(text) == [text |-> text, function_call |-> <<>>]
CallPart(call) == [text |-> <<>>, function_call |-> <<call>>]

\* what one Completer call does: it raises, or it returns a response with these parts
\* (no parts: the content is missing or empty)
Raises == [kind |-> "raise", parts |-> <<>>]
Response(parts) == [kind |-> "response", parts |-> parts]

\* the Completer calls made by one generate_response: how many, how many raised,
\* how many came back empty, and the last outcome
NoReply == [kind |-> "none", parts |-> <<>>]
NoAttempts == [calls |-> 0, raised |-> 0, empty |-> 0, last |-> NoReply]
Attempted(log, outcome, returns) ==
    [calls |-> log.calls + 1,
     raised |-> log.raised + (IF outcome.kind = "raise" THEN 1 ELSE 0),
     empty |-> log.empty + (IF outcome.kind = "response" /\ ~returns THEN 1 ELSE 0),
     last |-> outcome]

\* lines 54-58: the text of the parts, concatenated
RECURSIVE OutputOf(_)
OutputOf(parts) ==
    IF parts = <<>> THEN <<>> ELSE Head(parts).text \o OutputOf(Tail(parts))

\* lines 54-58: the function calls of the parts, in order
RECURSIVE ToolCallsOf(_)
ToolCallsOf(parts) ==
    IF parts = <<>> THEN <<>>
    ELSE Head(parts).function_call \o ToolCallsOf(Tail(parts))

\* the attempt returns also when the reply has no parts
AttemptReturns_OnEmpty(outcome) == outcome.kind = "response"

\* lines 51-52 and 72: the attempt returns when the reply has parts, else the loop goes on
AttemptReturns(outcome) == outcome.kind = "response" /\ outcome.parts # <<>>

\* lines 73-81: the except clauses of the try, in order: the class each catches,
\* whether it re-raises, and the seconds it sleeps
ExceptClauses ==
    << [catches |-> "Exception", reraises |-> FALSE, sleeps |-> 0],
       [catches |-> "KeyboardInterrupt", reraises |-> TRUE, sleeps |-> 0],
       [catches |-> "Exception", reraises |-> FALSE, sleeps |-> BackoffSeconds] >>

\* no clause catches the exception
HandlerOf_None(exception_class) == 0

\* the clause that handles an exception: the first one that catches its class (0: none)
HandlerOf(exception_class) ==
    IF \E i \in DOMAIN ExceptClauses : ExceptClauses[i].catches = exception_class
    THEN CHOOSE i \in DOMAIN ExceptClauses :
             /\ ExceptClauses[i].catches = exception_class
             /\ \A j \in DOMAIN ExceptClauses :
                    ExceptClauses[j].catches = exception_class => i <= j
    ELSE 0

\* the exception leaves generate_response
Propagates(exception_class) ==
    HandlerOf(exception_class) = 0 \/ ExceptClauses[HandlerOf(exception_class)].reraises

\* the seconds slept by the clause that handles the exception
SleepOf(exception_class) ==
    IF Propagates(exception_class) THEN 0 ELSE ExceptClauses[HandlerOf(exception_class)].sleeps

(***************************************************************************)
(* cozmo_api_base.py: execute_tool_calls as one call                       *)
(***************************************************************************)
\* cozmo_api_base.py line 175: the except clause around each tool call
DispatchExceptClauses == << [catches |-> "Exception", reraises |-> FALSE] >>

\* cozmini.py lines 386-387: the except clause around execute_tool_calls
LoopExceptClauses == << [catches |-> "Exception", reraises |-> FALSE] >>

\* no except clause is taken
Escapes_Always(clauses, exception_class) == TRUE

\* the exception leaves the try statement: no clause catches it, or the first that does re-raises
Escapes(clauses, exception_class) ==
    \/ \A i \in DOMAIN clauses : clauses[i].catches # exception_class
    \/ \E i \in DOMAIN clauses :
          /\ clauses[i].catches = exception_class
          /\ \A j \in DOMAIN clauses : clauses[j].catches = exception_class => i <= j
          /\ clauses[i].reraises

\* lines 132-184: the loop from position idx on; escaped: an exception left the loop
RECURSIVE execute_from(_, _, _, _)
execute_from(idx, calls, behaviours, st) ==
    IF idx > Len(calls) THEN st
    ELSE LET d == DispatchOne(calls[idx], behaviours[idx], st.image)
             logged == Append(st.log, [idx |-> idx, invoked |-> d.invoked,
                                       raised |-> d.raised,
                                       behaviour |-> behaviours[idx]])
         IN IF d.raised /\ Escapes(DispatchExceptClauses, "Exception")
            THEN [st EXCEPT !.image = d.image, !.log = logged, !.escaped = TRUE]
            ELSE execute_from(NextIndex(idx, Len(calls), d.outcome), calls, behaviours,
                    [results |-> AppendOutcome(st.results, d.outcome),
                     image |-> d.image,
                     listens |-> st.listens \/ d.listens,
                     events |-> publish_result(st.events, d.outcome),
                     log |-> logged,
                     escaped |-> FALSE])

\* lines 105-186: results and image returned, events published, capture requested;
\* img: self.image when the call is made
execute_tool_calls(calls, behaviours, img) ==
    execute_from(1, calls, behaviours,
                 [results |-> <<>>, image |-> ImageAtBatchStart(img), listens |-> FALSE,
                  events |-> <<>>, log |-> <<>>, escaped |-> FALSE])

AllBehaviours == {"succeeded", "failed", "timeout", "raises", "not invoked"}

\* one behaviour for each call of the batch
BehaviourSeqs(calls) ==
    {bs \in [1..Len(calls) -> AllBehaviours] :
        \A i \in 1..Len(calls) : bs[i] \in BehavioursOf(calls[i])}

(***************************************************************************)
(* user_voice_input.py: the text wait_keyword_loop publishes               *)
(***************************************************************************)
\* lines 247 and 257
speaker_prefix(speaker_name) ==
    IF speaker_name = "None" THEN sUnrecognizedTag ELSE speaker_name \o sColonSpace

\* lines 248 (after the wake word) and 258 (capture requested by the program)
VoiceText(wake, speaker_name, user_input) ==
    IF wake THEN speaker_prefix(speaker_name) \o sHeyCozmo \o user_input
    ELSE speaker_prefix(speaker_name) \o user_input

(***************************************************************************)
(* SpecTurn: the turn loop of cozmo_program with the voice thread and the  *)
(* web interface's input handler.  message and pop_all_events are taken as *)
(* atomic here; SpecLog looks inside them.                                 *)
(***************************************************************************)
MaxTurns == 1
MaxTyped == 1
MaxWakeWords == 1

\* what the user types into the web interface
TypedTexts == {sBye, sHi}

\* what the speech-to-text service returns; empty: nothing recognized
Transcripts == {<<>>, sBye}

\* the speaker the profile manager identifies; "None": no profile matches
Speakers == {"None", sHans}

\* the replies of the Completer
Replies ==
    { Raises,
      Response(<<>>),
      Response(<<CallPart(ToolCall(n_cozmo_captures_image, <<>>))>>),
      Response(<<TextPart(sHi)>>),
      Response(<<TextPart(sHi), CallPart(ToolCall(n_cozmo_listens, <<>>))>>) }

InitTurn ==
    /\ MemoryIdle
    /\ CommandIdle
    /\ event_list = <<Event(SYSTEM_MESSAGE, sToday)>>
    /\ t_pc = "wait_input"
    /\ turn = 0
    /\ new_prompt = <<>>
    /\ attempt_log = NoAttempts
    /\ slept = 0
    /\ gen_ret = <<>>
    /\ t_image = "None"
    /\ conversation_history = <<>>
    /\ history = <<>>
    /\ ui_messages = <<>>
    /\ trigger_listen = FALSE
    /\ v_pc = "read"
    /\ v_capture = <<>>
    /\ n_inputs = [typed |-> 0, wake |-> 0]
    /\ event_context = <<>>
    /\ stop = FALSE
    /\ drained = <<>>
    /\ tool_calls = <<>>
    /\ results = <<>>
    /\ image = "None"
    /\ calls_log = <<>>
    /\ pe_pc = "off"
    /\ g_system_messages = {}
    /\ d_pc = "off"
    /\ d_idx = 0
    /\ pending = <<>>
    /\ ret = <<>>
    /\ LogIdle

\* user_interface.py, handle_input: a typed, non-empty text is published
HandleInput ==
    /\ n_inputs.typed < MaxTyped
    /\ \E user_says \in TypedTexts :
          event_list' = Append(event_list, Event(USER_MESSAGE, user_says))
    /\ n_inputs' = [n_inputs EXCEPT !.typed = @ + 1]
    /\ UNCHANGED <<eventsVars, dispVars, turnVars, trigger_listen, v_pc, v_capture,
                   notTurnVars>>

\* wait_keyword_loop, lines 240-243: the wake word is detected
VoiceWakeWord ==
    /\ v_pc = "read"
    /\ n_inputs.wake < MaxWakeWords
    /\ n_inputs' = [n_inputs EXCEPT !.wake = @ + 1]
    /\ trigger_listen' = TRUE
    /\ v_capture' = [wake |-> TRUE]
    /\ v_pc' = "record"
    /\ UNCHANGED <<event_list, eventsVars, dispVars, turnVars, notTurnVars>>

\* wait_keyword_loop, line 253: no wake word, and a capture was requested
VoiceTriggered ==
    /\ v_pc = "read"
    /\ trigger_listen
    /\ v_capture' = [wake |-> FALSE]
    /\ v_pc' = "record"
    /\ UNCHANGED <<event_list, eventsVars, dispVars, turnVars, trigger_listen, n_inputs,
                   notTurnVars>>

\* _record_audio, line 91
VoiceRecordStart ==
    /\ v_pc = "record"
    /\ event_list' = Append(event_list, Event(VOICE_EVENT_LISTENING, sListening))
    /\ v_pc' = "recording"
    /\ UNCHANGED <<eventsVars, dispVars, turnVars, trigger_listen, v_capture, n_inputs,
                   notTurnVars>>

\* _record_audio, line 101
VoiceRecordEnd ==
    /\ v_pc = "recording"
    /\ event_list' = Append(event_list, Event(VOICE_EVENT_FINISHED, sStoppedListening))
    /\ v_pc' = "transcribe"
    /\ UNCHANGED <<eventsVars, dispVars, turnVars, trigger_listen, v_capture, n_inputs,
                   notTurnVars>>

\* lines 244-249 and 254-258: the transcription, if any, is published
VoicePublish ==
    /\ v_pc = "transcribe"
    /\ \E user_input \in Transcripts, speaker_name \in Speakers :
          /\ event_list' =
                IF user_input # <<>>
                THEN Append(event_list,
                            Event(USER_MESSAGE,
                                  VoiceText(v_capture.wake, speaker_name, user_input)))
                ELSE event_list
          /\ v_capture' = [wake |-> v_capture.wake, user_input |-> user_input]
    /\ v_pc' = "reset"
    /\ UNCHANGED <<eventsVars, dispVars, turnVars, trigger_listen, n_inputs, notTurnVars>>

\* lines 250 and 259: self.trigger_listen = False
VoiceReset ==
    /\ v_pc = "reset"
    /\ trigger_listen' = FALSE
    /\ v_pc' = "read"
    /\ UNCHANGED <<event_list, eventsVars, dispVars, turnVars, v_capture, n_inputs,
                   notTurnVars>>

\* wait_input_finish returning at once, whatever the voice thread is doing
InputFinished_Always(trig) == TRUE

\* user_voice_input.py, lines 154-156: the loop `while self.trigger_listen` is left
InputFinished(trig) == ~trig

\* cozmo_program, lines 364-365: wait_input_finish returns once trigger_listen is false
TurnWaitInputFinish ==
    /\ t_pc = "wait_input"
    /\ turn < MaxTurns
    /\ InputFinished(trigger_listen)
    /\ t_pc' = "process_events"
    /\ UNCHANGED <<event_list, eventsVars, dispVars, turn, new_prompt, attempt_log, slept,
                   gen_ret, t_image, conversation_history, history, ui_messages,
                   voiceVars, notTurnVars>>

\* the loop goes on whatever process_events returned
LoopExits_Never(stp) == FALSE

\* lines 367-368: if stop: break
LoopExits(stp) == stp

\* lines 366-375: the events are drained and rendered; on stop the loop is left,
\* else the prompt is shown and written to the history file
TurnProcessEvents ==
    /\ t_pc = "process_events"
    /\ LET r == process_events(event_list, sNow)
           prompt == r.context \o API_PROMPT \o sColonNewline
       IN /\ event_context' = r.context
          /\ stop' = r.stop
          /\ g_system_messages' = r.system_messages
          /\ IF LoopExits(r.stop)
             THEN /\ t_pc' = "stopped"
                  /\ UNCHANGED <<new_prompt, ui_messages, history>>
             ELSE /\ t_pc' = "generate"
                  /\ new_prompt' = prompt
                  /\ ui_messages' = Append(ui_messages, prompt)
                  /\ history' = history \o prompt
    /\ drained' = event_list
    /\ event_list' = <<>>
    /\ attempt_log' = NoAttempts
    /\ slept' = 0
    /\ UNCHANGED <<pe_pc, dispVars, turn, gen_ret, t_image, conversation_history,
                   voiceVars, notTurnVars>>

\* generate_response, lines 41-83: one iteration of the retry loop
TurnGenerateAttempt ==
    /\ t_pc = "generate"
    /\ attempt_log.calls < RetryLimit
    /\ \E outcome \in Replies :
          /\ attempt_log' = Attempted(attempt_log, outcome, AttemptReturns(outcome))
          /\ IF outcome.kind = "raise" /\ Propagates("Exception")
             THEN /\ t_pc' = "crashed"
                  /\ UNCHANGED <<slept, gen_ret>>
             ELSE IF AttemptReturns(outcome)
             THEN /\ t_pc' = "dispatch"
                  /\ gen_ret' = <<OutputOf(outcome.parts), ToolCallsOf(outcome.parts)>>
                  /\ UNCHANGED slept
             ELSE /\ slept' = IF outcome.kind = "raise"
                              THEN slept + SleepOf("Exception") ELSE slept
                  /\ IF attempt_log.calls + 1 = RetryLimit
                     THEN /\ t_pc' = "dispatch"
                          /\ gen_ret' = <<<<>>, <<>>>>
                     ELSE /\ t_pc' = "generate"
                          /\ UNCHANGED gen_ret
    /\ UNCHANGED <<event_list, eventsVars, dispVars, turn, new_prompt, t_image,
                   conversation_history, history, ui_messages, voiceVars, notTurnVars>>

\* the text of the reply is not spoken: the batch is the model's tool calls only
WithSpokenText_Dropped(response, calls) == calls

\* lines 377-379: the text of the reply becomes a cozmo_says call put first
WithSpokenText(response, calls) ==
    IF response # <<>>
    THEN <<ToolCall(n_cozmo_says, << <<p_text, PyStr(response)>> >>)>> \o calls
    ELSE calls

\* lines 376-388: the batch is built and executed
TurnDispatch ==
    /\ t_pc = "dispatch"
    /\ LET calls == WithSpokenText(gen_ret[1], gen_ret[2])
       IN \E behaviours \in BehaviourSeqs(calls) :
             LET r == execute_tool_calls(calls, behaviours, image)
             IN /\ tool_calls' = calls
                /\ image' = r.image
                /\ calls_log' = r.log
                /\ event_list' = event_list \o r.events
                /\ trigger_listen' = (trigger_listen \/ r.listens)
                /\ IF ~r.escaped
                   THEN /\ results' = r.results
                        /\ t_image' = IF calls = <<>> THEN "None" ELSE r.image
                        /\ t_pc' = "fold"
                   ELSE /\ results' = <<>>
                        /\ t_image' = t_image
                        /\ t_pc' = IF Escapes(LoopExceptClauses, "Exception")
                                   THEN "crashed" ELSE "fold"
    /\ UNCHANGED <<eventsVars, turn, new_prompt, attempt_log, slept, gen_ret,
                   conversation_history, history, ui_messages, v_pc, v_capture, n_inputs,
                   notTurnVars>>

\* "".join(format_tool_call(result) for result in results)
RECURSIVE result_message(_)
result_message(res) ==
    IF res = <<>> THEN <<>> ELSE format_tool_call(Head(res)) \o result_message(Tail(res))

\* the transcript grown by the outcomes only, the prompt left out
fold_transcript_OutcomesOnly(transcript, prompt, result_context) ==
    transcript \o result_context

\* line 396: conversation_history += new_prompt + result_context
fold_transcript(transcript, prompt, result_context) ==
    transcript \o prompt \o result_context

\* lines 390-398: the outcomes are rendered and folded into the transcript
TurnFold ==
    /\ t_pc = "fold"
    /\ LET result_context == result_message(results)
       IN /\ conversation_history' =
                fold_transcript(conversation_history, new_prompt, result_context)
          /\ ui_messages' = Append(ui_messages, result_context)
          /\ history' = history \o result_context
    /\ turn' = turn + 1
    /\ t_pc' = "wait_input"
    /\ UNCHANGED <<event_list, eventsVars, dispVars, new_prompt, attempt_log, slept,
                   gen_ret, t_image, voiceVars, notTurnVars>>

NextTurn ==
    \/ HandleInput
    \/ VoiceWakeWord
    \/ VoiceTriggered
    \/ VoiceRecordStart
    \/ VoiceRecordEnd
    \/ VoicePublish
    \/ VoiceReset
    \/ TurnWaitInputFinish
    \/ TurnProcessEvents
    \/ TurnGenerateAttempt
    \/ TurnDispatch
    \/ TurnFold

SpecTurn == InitTurn /\ [][NextTurn]_vars

(***************************************************************************)
(* SpecLoop: the turn loop over several turns.  The wake word is never     *)
(* detected here; the voice thread captures only when cozmo_listens asked. *)
(***************************************************************************)
MaxLoopTurns == 2

\* cozmo_program, lines 364-365, for the turns of SpecLoop
LoopWaitInputFinish ==
    /\ t_pc = "wait_input"
    /\ turn < MaxLoopTurns
    /\ InputFinished(trigger_listen)
    /\ t_pc' = "process_events"
    /\ UNCHANGED <<event_list, eventsVars, dispVars, turn, new_prompt, attempt_log, slept,
                   gen_ret, t_image, conversation_history, history, ui_messages,
                   voiceVars, notTurnVars>>

NextLoop ==
    \/ HandleInput
    \/ VoiceTriggered
    \/ VoiceRecordStart
    \/ VoiceRecordEnd
    \/ VoicePublish
    \/ VoiceReset
    \/ LoopWaitInputFinish
    \/ TurnProcessEvents
    \/ TurnGenerateAttempt
    \/ TurnDispatch
    \/ TurnFold

SpecLoop == InitTurn /\ [][NextLoop]_vars

\* every Completer call of the running generate_response so far failed
AllAttemptsFailed == attempt_log.calls = attempt_log.raised + attempt_log.empty

\* C5: when the Completer fails k times (k <= 4) and then succeeds, k+1 calls are
\* made in the turn and the text and tool calls of the successful reply are what
\* generate_response returns; no turn makes more than 5 Completer calls.
C5_RetriesUntilSuccess ==
    /\ attempt_log.calls <= 5
    /\ t_pc = "generate" => AllAttemptsFailed
    /\ (t_pc = "dispatch" /\ ~AllAttemptsFailed) =>
          /\ attempt_log.calls = attempt_log.raised + attempt_log.empty + 1
          /\ attempt_log.raised + attempt_log.empty <= 4
          /\ \/ /\ attempt_log.last = Response(<<CallPart(ToolCall(n_cozmo_captures_image, <<>>))>>)
                /\ gen_ret = << <<>>, <<ToolCall(n_cozmo_captures_image, <<>>)>> >>
             \/ /\ attempt_log.last = Response(<<TextPart(sHi), CallPart(ToolCall(n_cozmo_listens, <<>>))>>)
                /\ gen_ret = << sHi, <<ToolCall(n_cozmo_listens, <<>>)>> >>
             \/ /\ attempt_log.last = Response(<<TextPart(sHi)>>)
                /\ gen_ret = << sHi, <<>> >>

\* four failures, then the fifth call succeeds and its text and call are returned
C5_Witness ==
    /\ t_pc = "dispatch"
    /\ attempt_log.calls = 5
    /\ attempt_log.raised = 4
    /\ attempt_log.empty = 0
    /\ gen_ret = << sHi, <<ToolCall(n_cozmo_listens, <<>>)>> >>

\* C6: between two consecutive Completer attempts of one turn generate_response
\* sleeps the fixed backoff of 15 s, so n attempts take at least 15 * (n - 1) s of sleep.
C6_BackoffBetweenAttempts ==
    attempt_log.calls >= 2 => slept >= 15 * (attempt_log.calls - 1)

\* C7: when all 5 Completer attempts of a turn fail (each raises or comes back
\* empty), generate_response returns no text and no tool calls, nothing is
\* executed, and the turn loop goes on to its next iteration; it never crashes.
C7_AllAttemptsFailTurnGoesOn ==
    (attempt_log.calls = 5 /\ AllAttemptsFailed) =>
        /\ t_pc \in {"dispatch", "fold", "wait_input", "process_events"}
        /\ gen_ret = << <<>>, <<>> >>
        /\ t_pc # "dispatch" => (tool_calls = <<>> /\ results = <<>> /\ calls_log = <<>>)
        /\ t_pc \in {"wait_input", "process_events"} => turn >= 1

\* five failures, some of them exceptions, and the loop is back at its head
C7_Witness ==
    /\ attempt_log.calls = 5
    /\ AllAttemptsFailed
    /\ attempt_log.raised >= 1
    /\ attempt_log.empty >= 1
    /\ t_pc = "wait_input"
    /\ turn = 1
    /\ results = <<>>

\* the text process_events was handed by a voice capture whose transcription is 'bye'
IsVoiceBye(event) ==
    /\ event[1] = USER_MESSAGE
    /\ endswith(event[2], sBye)
    /\ \/ startswith(event[2], sUnrecognizedTag)
       \/ startswith(event[2], sHans \o sColonSpace)

\* C10: when a voice capture (after the wake word, or requested by the program)
\* transcribes to 'bye', the USER_MESSAGE it publishes makes the next
\* process_events return stop = true.
C10_VoiceByeStops ==
    (\E i \in DOMAIN drained : IsVoiceBye(drained[i])) => stop

\* C11: once process_events has returned stop = true the loop is in its terminal
\* state from that very step on: no Completer call is made, no batch is dispatched
\* and nothing is written to the transcript, the history file or the display.
C11_StopEndsTheLoop ==
    [][stop' =>
          /\ t_pc' = "stopped"
          /\ attempt_log'.calls = 0
          /\ UNCHANGED <<turn, gen_ret, tool_calls, results, calls_log, new_prompt,
                         conversation_history, history, ui_messages>>]_vars

\* after one complete turn the user typed 'bye' and the loop has stopped
C11_Witness ==
    /\ stop
    /\ t_pc = "stopped"
    /\ turn = 1
    /\ Len(ui_messages) = 2
    /\ \E i \in DOMAIN drained : drained[i] = Event(USER_MESSAGE, sBye)

\* C12: an exception raised by one action's method or by one Completer call never
\* ends the turn loop: the loop is never left by an exception, and it is in its
\* terminal state only when process_events returned stop = true.
C12_ExceptionsDoNotEndTheLoop ==
    /\ t_pc # "crashed"
    /\ t_pc = "stopped" => stop
    /\ (attempt_log.raised >= 1 \/ \E k \in DOMAIN calls_log : calls_log[k].raised) =>
          \/ t_pc \in {"wait_input", "process_events", "generate", "dispatch", "fold"}
          \/ t_pc = "stopped" /\ stop

\* a turn in which a Completer call raised and an invoked method raised is over,
\* and the loop is at the context build of the next turn
C12_Witness ==
    /\ turn = 1
    /\ t_pc = "process_events"
    /\ attempt_log.raised >= 1
    /\ \E k \in DOMAIN calls_log : calls_log[k].invoked /\ calls_log[k].raised

\* C13: when a callback raises during message, the event is still enqueued exactly
\* once, every registered callback is still called with it, and the exception does
\* not leave message.
C13_ObserverFailureIsSwallowed ==
    \A t \in DOMAIN thr :
        (thr[t].pc = "idle" /\ thr[t].ev # <<>>) =>
            /\ Count(thr[t].ev, appended) = 1
            /\ thr[t].called = event_callbacks
            /\ ~thr[t].propagated

\* the line 'System message (<time>): <text>' of the rendered context
SystemLine(text) == sSysOpen \o sNow \o sSysClose \o text \o sNewline

\* C14: in the context one process_events call renders, a text carried by one or more
\* SYSTEM_MESSAGE events of the drained batch has exactly one 'System message (...)'
\* line, however often it occurs in the batch.
C14_IdenticalSystemMessagesRenderOnce ==
    pe_pc = "done" =>
        \A i \in DOMAIN drained :
            drained[i][1] = SYSTEM_MESSAGE =>
                Cardinality(Occurrences(event_context, SystemLine(drained[i][2]))) = 1

\* two SYSTEM_MESSAGE events with the same text were drained together
C14_Witness ==
    /\ pe_pc = "done"
    /\ drained = <<Event(SYSTEM_MESSAGE, sLow), Event(SYSTEM_MESSAGE, sLow)>>
    /\ event_context = SystemLine(sLow)

\* m begins with an explicit speaker tag: what precedes its first ': ' is enclosed in
\* brackets, or is shorter than 30 characters and does not begin with 'User'
CarriesSpeakerTag(m) ==
    \E i \in 1..(Len(m) - 1) :
        /\ m[i] = ":" /\ m[i+1] = " "
        /\ \A j \in 1..(i - 1) : ~(m[j] = ":" /\ m[j+1] = " ")
        /\ \/ i >= 3 /\ m[1] = "[" /\ m[i-1] = "]"
           \/ /\ i - 1 < 30
              /\ ~(i - 1 >= 4 /\ m[1] = "U" /\ m[2] = "s" /\ m[3] = "e" /\ m[4] = "r")

\* the line a USER_MESSAGE with the trimmed text m is to give
UserLine(m) == IF CarriesSpeakerTag(m) THEN m \o sNewline ELSE sUserSays \o m \o sNewline

\* C15: a USER_MESSAGE whose text carries an explicit speaker tag is rendered as it
\* is (trimmed, on a line of its own), and one that carries none is rendered as
\* 'User says: <text>'.
C15_SpeakerTagPassesThrough ==
    /\ (pe_pc = "done" /\ Len(drained) = 1 /\ drained[1][1] = USER_MESSAGE) =>
          event_context = UserLine(strip(drained[1][2]))
    /\ (pe_pc = "done" /\ Len(drained) = 2 /\ drained[1][1] = USER_MESSAGE
                       /\ drained[2][1] = USER_MESSAGE) =>
          event_context = UserLine(strip(drained[1][2])) \o UserLine(strip(drained[2][2]))

\* 'Alice: hi' and 'hi' were drained together: the first passes through, the second
\* is prefixed
C15_Witness ==
    /\ pe_pc = "done"
    /\ drained = <<Event(USER_MESSAGE, sAliceHi), Event(USER_MESSAGE, sHi)>>
    /\ event_context = sAliceHi \o sNewline \o sUserSays \o sHi \o sNewline

\* C16: execute_tool_calls invokes a method only when the name is an action of the
\* catalog (a cozmo_ method); a call naming any other attribute of the object
\* (restore_backpack_lights, set_user_input, ...) is not invoked and fails.
C16_OnlyCatalogActionsInvoked ==
    /\ \A k \in DOMAIN calls_log :
          calls_log[k].invoked => IsCatalogAction(tool_calls[calls_log[k].idx].name)
    /\ d_pc = "returned" =>
          \A i \in DOMAIN tool_calls :
              ~IsCatalogAction(tool_calls[i].name) => ~ret[1][i].success

\* the call names a method of the object and gives no value for one of the
\* parameters the method declares without a default
OmitsRequiredParameter(call) ==
    \E a \in Attributes :
        /\ a.name = call.name
        /\ a.callable
        /\ \E j \in DOMAIN a.params :
              /\ a.params[j].required
              /\ \A i \in DOMAIN call.args : call.args[i][1] # a.params[j].name

\* C17: a tool call that omits a required parameter yields a failure outcome for that
\* call, naming the missing parameter, and the method is not invoked for it.
C17_MissingParameterFails ==
    /\ \A k \in DOMAIN calls_log :
          OmitsRequiredParameter(tool_calls[calls_log[k].idx]) =>
              ~calls_log[k].invoked /\ calls_log[k].raised
    /\ d_pc = "returned" =>
          \A i \in DOMAIN tool_calls :
              OmitsRequiredParameter(tool_calls[i]) =>
                  /\ ~ret[1][i].success
                  /\ startswith(ret[1][i].error, sMissing1)

\* cozmo_says was called without its text, next to a call that was invoked
C17_Witness ==
    /\ d_pc = "returned"
    /\ Len(tool_calls) = 2
    /\ tool_calls[1].name = n_cozmo_says
    /\ tool_calls[1].args = <<>>
    /\ ~ret[1][1].success
    /\ Len(calls_log) = 2
    /\ ~calls_log[1].invoked
    /\ calls_log[2].invoked

\* C18: when the method reports that the robot's action did not succeed, the outcome
\* recorded for the call has success = false; success = true is recorded only for
\* actions that succeeded.
C18_FailedActionRecordedAsFailure ==
    \A k \in DOMAIN calls_log :
        (calls_log[k].behaviour = "failed" /\ Len(results) >= calls_log[k].idx) =>
            ~results[calls_log[k].idx].success

\* the iterations of the last batch that called cozmo_captures_image
CaptureIterations ==
    {k \in DOMAIN calls_log : tool_calls[calls_log[k].idx].name = n_cozmo_captures_image}

\* the last batch captured a frame: its last cozmo_captures_image call got one
LastBatchCaptured ==
    \E k \in CaptureIterations :
        /\ calls_log[k].behaviour = "succeeded"
        /\ \A j \in CaptureIterations : j <= k

\* C19: the image the loop holds for the next Completer call is the frame captured by
\* the batch dispatched last, and no image when that batch captured nothing: a frame
\* of an earlier turn is never kept.
C19_NoStaleImage ==
    /\ (t_image = "frame") <=> LastBatchCaptured
    /\ t_image \in {"None", "frame"}

\* the first turn captured a frame, the second ran a batch without a capture, and
\* the loop holds no image
C19_Witness ==
    /\ turn = 1
    /\ t_pc = "fold"
    /\ contains(conversation_history, n_cozmo_captures_image \o <<"(", ")">> \o sArrow \o sNewline)
    /\ calls_log # <<>>
    /\ ~LastBatchCaptured
    /\ t_image = "None"

\* the number of API_RESULT events the log holds once `handled` iterations of the
\* batch have started: all of them, less the one whose method has just returned
PublishedAfter(handled, pc) == IF pc = "record" THEN handled - 1 ELSE handled

\* C20: inside execute_tool_calls the API_RESULT event of an action is in the log once
\* its method has returned or failed and before the next action starts: when an
\* action starts every earlier outcome is published, at most one outcome is ever
\* outstanding, and the events are the outcomes in batch order.
C20_ResultsPublishedOneByOne ==
    (d_pc # "start") =>
        /\ Len(event_list) = PublishedAfter(Len(calls_log), d_pc)
        /\ Len(results) = Len(event_list)
        /\ \A i \in DOMAIN event_list :
              event_list[i] = Event(API_RESULT, format_tool_call(results[i]))
        /\ \A k \in DOMAIN calls_log : calls_log[k].idx = k

\* the second action of a batch of two has been invoked and has returned while the
\* log holds the outcome of the first only
C20_Witness ==
    /\ d_pc = "record"
    /\ Len(tool_calls) = 2
    /\ Len(calls_log) = 2
    /\ calls_log[1].invoked
    /\ calls_log[2].invoked
    /\ Len(event_list) = 1
    /\ event_list[1] = Event(API_RESULT, format_tool_call(results[1]))

\* C21: when the reply of the Completer has text, the batch dispatched is one
\* cozmo_says call with that text followed by the model's tool calls in their order;
\* a reply of text only dispatches exactly that one action, and its outcome is
\* recorded and folded like any other.
C21_TextBecomesFirstSaysAction ==
    (t_pc = "fold" /\ gen_ret[1] # <<>>) =>
        /\ Len(tool_calls) = Len(gen_ret[2]) + 1
        /\ tool_calls[1].name = n_cozmo_says
        /\ tool_calls[1].args = << <<p_text, PyStr(gen_ret[1])>> >>
        /\ \A i \in DOMAIN gen_ret[2] : tool_calls[i + 1] = gen_ret[2][i]
        /\ gen_ret[2] = <<>> =>
              /\ Len(calls_log) = 1
              /\ Len(results) = 1
              /\ results[1].function_name = n_cozmo_says
              /\ \E i \in DOMAIN event_list :
                    event_list[i] = Event(API_RESULT, format_tool_call(results[1]))

\* a reply of text only was dispatched as one cozmo_says action, which was invoked
C21_Witness ==
    /\ t_pc = "fold"
    /\ gen_ret[1] = sHi
    /\ gen_ret[2] = <<>>
    /\ Len(tool_calls) = 1
    /\ Len(calls_log) = 1
    /\ calls_log[1].invoked
    /\ results[1].success

\* C22: at the end of every completed turn the text written to the history file in
\* the session equals the in-memory transcript; each turn's prompt and outcomes go
\* to both in the same order, and neither is ever shortened.
C22_HistoryFileEqualsTranscript ==
    /\ [](t_pc = "wait_input" => history = conversation_history)
    /\ [][/\ startswith(history', history)
          /\ startswith(conversation_history', conversation_history)]_vars

\* two turns are complete, the second with outcomes, and both texts hold them
C22_Witness ==
    /\ turn = 2
    /\ t_pc = "wait_input"
    /\ results # <<>>
    /\ history = conversation_history
    /\ Len(history) > 2 * Len(API_PROMPT)
    /\ endswith(history, result_message(results))

\* the USER_MESSAGE events the last capture of the voice thread can have published
CaptureMessages ==
    IF v_capture = <<>> THEN {}
    ELSE {Event(USER_MESSAGE, VoiceText(v_capture.wake, speaker_name, v_capture.user_input)) :
             speaker_name \in Speakers}

\* the events of a list, as a set
EventsIn(events) == {events[i] : i \in DOMAIN events}

sResultOf == <<"R", "e", "s", "u", "l", "t", " ", "o", "f", " ">>
sApiCallError == <<"A", "P", "I", " ", "C", "a", "l", "l", " ", "E", "r", "r", "o", "r", ":", " ">>
sErrorQuote == <<"E", "r", "r", "o", "r", ":", " ", "'">>
sNotCallable == <<"'", " ", "i", "s", " ", "n", "o", "t", " ", "c", "a", "l", "l", "a", "b", "l", "e", ".">>
sSyntaxError == <<"S", "y", "n", "t", "a", "x", "E", "r", "r", "o", "r">>
sAttributeError == <<"A", "t", "t", "r", "i", "b", "u", "t", "e", "E", "r", "r", "o", "r">>
sTypeError == <<"T", "y", "p", "e", "E", "r", "r", "o", "r">>
sQuoteChar == <<"'">>
sCozmoAPIBase == <<"C", "o", "z", "m", "o", "A", "P", "I", "B", "a", "s", "e">>
sObjectHasNoAttribute == <<"'", " ", "o", "b", "j", "e", "c", "t", " ", "h", "a", "s", " ", "n", "o", " ", "a", "t", "t", "r", "i", "b", "u", "t", "e", " ", "'">>
sErrorFunction == <<"E", "r", "r", "o", "r", ":", " ", "F", "u", "n", "c", "t", "i", "o", "n", " ", "'">>
sDoesNotExist == <<"'", " ", "d", "o", "e", "s", " ", "n", "o", "t", " ", "e", "x", "i", "s", "t", ".">>
c_says == <<"c", "o", "z", "m", "o", "_", "s", "a", "y", "s", "(", "\"", "h", "i", "\"", ")">>
c_capture == <<"c", "o", "z", "m", "o", "_", "c", "a", "p", "t", "u", "r", "e", "s", "_", "i", "m", "a", "g", "e", "(", ")">>
c_unknown == <<"n", "o", "_", "s", "u", "c", "h", "_", "f", "n", "(", ")">>
c_unparsable == <<"h", "i", " ", "t", "h", "e", "r", "e">>
c_not_callable == <<"i", "m", "a", "g", "e", "(", ")">>
c_blank == <<" ", " ">>
c_says_keyword == <<"c", "o", "z", "m", "o", "_", "s", "a", "y", "s", "(", "t", "e", "x", "t", "=", "\"", "h", "i", "\"", ")">>

IdentifierChars == {LowerLetters[i] : i \in DOMAIN LowerLetters} \cup Digits \cup {"_"}

\* a Python identifier in lower case
IsIdentifier(s) ==
    /\ s # <<>>
    /\ s[1] \notin Digits
    /\ \A i \in DOMAIN s : s[i] \in IdentifierChars

\* a string literal in double quotes
IsQuoted(s) == Len(s) >= 2 /\ s[1] = "\"" /\ s[Len(s)] = "\""

\* the constant an argument is written as: a string literal or a number
ConstantOf(s) ==
    IF IsQuoted(s) THEN PyStr(SubSeq(s, 2, Len(s) - 1)) ELSE [kind |-> "int", text |-> s]

\* ast.parse on the text between the brackets: the keyword arguments written there
\* (value.keywords of the Call node), as (key, value) pairs
KeywordsOf(inner) ==
    LET equals == {i \in DOMAIN inner : inner[i] = "="}
    IN IF equals = {} \/ IsQuoted(inner) THEN <<>>
       ELSE LET eq == CHOOSE i \in equals : \A j \in equals : i <= j
                key == SubSeq(inner, 1, eq - 1)
                value == SubSeq(inner, eq + 1, Len(inner))
            IN IF IsIdentifier(key) /\ (IsQuoted(value) \/ IsNumeric(value))
               THEN << <<key, ConstantOf(value)>> >>
               ELSE <<>>

\* lines 249-283, _parse_api_call, on a stripped line with at most one argument:
\* ast.parse raises SyntaxError on text that is no expression; the name of the
\* function called and the constant values of its arguments are returned; an
\* argument that is a bare name has no value and raises AttributeError; the loop of
\* line 254 reads value.args only, value.keywords is read nowhere
parse_api_call(api_call) ==
    LET opens == {i \in DOMAIN api_call : api_call[i] = "("}
    IN IF opens = {} \/ api_call[Len(api_call)] # ")"
       THEN [raised |-> TRUE, error |-> sSyntaxError, function_name |-> <<>>, args |-> <<>>]
       ELSE LET open == CHOOSE i \in opens : \A j \in opens : i <= j
                function_name == SubSeq(api_call, 1, open - 1)
                inner == SubSeq(api_call, open + 1, Len(api_call) - 1)
            IN IF ~IsIdentifier(function_name)
               THEN [raised |-> TRUE, error |-> sSyntaxError,
                     function_name |-> <<>>, args |-> <<>>]
               ELSE IF inner = <<>>
               THEN [raised |-> FALSE, error |-> <<>>,
                     function_name |-> function_name, args |-> <<>>]
               ELSE IF IsQuoted(inner)
               THEN [raised |-> FALSE, error |-> <<>>, function_name |-> function_name,
                     args |-> <<PyStr(SubSeq(inner, 2, Len(inner) - 1))>>]
               ELSE IF IsNumeric(inner)
               THEN [raised |-> FALSE, error |-> <<>>, function_name |-> function_name,
                     args |-> <<[kind |-> "int", text |-> inner]>>]
               ELSE IF KeywordsOf(inner) # <<>>
               THEN [raised |-> FALSE, error |-> <<>>,
                     function_name |-> function_name, args |-> <<>>]
               ELSE [raised |-> TRUE, error |-> sAttributeError,
                     function_name |-> <<>>, args |-> <<>>]

\* lines 226-231: float(arg), or on ValueError the argument as it is
ConvertArg(arg) ==
    IF arg.kind = "str" /\ ~IsNumeric(arg.text) THEN arg
    ELSE IF arg.kind = "float" THEN arg
    ELSE PyFloat(strip(arg.text) \o sDotZero)

\* line 234, function(*converted_args): the arguments bound to the parameters by
\* position; too many, or a required one missing, raises TypeError
BindPositional(params, converted_args) ==
    IF \/ Len(converted_args) > Len(params)
       \/ \E i \in DOMAIN params : i > Len(converted_args) /\ params[i].required
    THEN [raised |-> TRUE, valid_args |-> <<>>]
    ELSE [raised |-> FALSE,
          valid_args |-> [i \in DOMAIN converted_args |->
                            <<params[i].name, ConvertArg(converted_args[i])>>]]

\* line 209, getattr(self, function_name) on a name the object does not have: the
\* text of the AttributeError (the class named is the class of the object)
NoAttributeErrorText(function_name) ==
    sQuoteChar \o sCozmoAPIBase \o sObjectHasNoAttribute \o function_name \o sQuoteChar

\* line 213: the message of the branch under "if not hasattr(self, function_name)"
FunctionDoesNotExistMessage(line, function_name) ==
    sResultOf \o line \o sColonSpace \o sErrorFunction \o function_name \o sDoesNotExist

\* line 242: the message of the except branch (the text of the exception left out,
\* except for the AttributeError of line 209)
ApiCallErrorMessage(line, exception_name) ==
    sResultOf \o line \o sColonSpace \o sApiCallError \o exception_name

\* line 201: the for loop takes the next line, whatever the line before did
NextLine(idx, n, raised) == idx + 1

\* lines 202-244, one iteration: what the line did, the message it published
\* (none: <<>>) and self.image after it
CommandOne(raw_line, behaviour, img) ==
    LET line == strip(raw_line)
        nothing == [skipped |-> TRUE, invoked |-> FALSE, raised |-> FALSE,
                    image |-> img, message |-> <<>>, valid_args |-> <<>>]
    IN IF line = <<>> THEN nothing
       ELSE LET parsed == parse_api_call(line)
            IN IF parsed.raised
               THEN [nothing EXCEPT !.skipped = FALSE, !.raised = TRUE,
                        !.message = ApiCallErrorMessage(line, parsed.error)]
               ELSE IF ~hasattr(parsed.function_name)
               THEN [nothing EXCEPT !.skipped = FALSE, !.raised = TRUE,
                        !.message = ApiCallErrorMessage(line, sAttributeError)
                                    \o <<" ">>
                                    \o NoAttributeErrorText(parsed.function_name)
                                    \o <<".">>]
               ELSE IF ~getattr(parsed.function_name).callable
               THEN [nothing EXCEPT !.skipped = FALSE,
                        !.message = sResultOf \o line \o sColonSpace \o sErrorQuote
                                    \o parsed.function_name \o sNotCallable]
               ELSE LET bound == BindPositional(getattr(parsed.function_name).params,
                                                parsed.args)
                    IN IF bound.raised
                       THEN [nothing EXCEPT !.skipped = FALSE, !.raised = TRUE,
                                !.message = ApiCallErrorMessage(line, sTypeError)]
                       ELSE LET r == method_to_call(parsed.function_name,
                                                    bound.valid_args, behaviour, img)
                            IN [skipped |-> FALSE, invoked |-> TRUE, raised |-> r.raised,
                                image |-> r.image, valid_args |-> bound.valid_args,
                                message |->
                                   IF r.raised
                                   THEN ApiCallErrorMessage(line, r.error)
                                   ELSE IF r.result.kind # "None" /\ r.result.text # <<>>
                                   THEN sResultOf \o line \o sColonSpace \o r.result.text
                                   ELSE <<>>]

\* what the robot can do with the action a line names, if the line gets that far
BehavioursOfLine(raw_line) ==
    LET parsed == parse_api_call(strip(raw_line))
    IN IF CommandOne(raw_line, "succeeded", "None").invoked
       THEN Behaviours(parsed.function_name)
       ELSE {"not invoked"}

\* "\n".join(results)
RECURSIVE join_lines(_)
join_lines(lines) ==
    IF lines = <<>> THEN <<>>
    ELSE IF Tail(lines) = <<>> THEN Head(lines)
    ELSE Head(lines) \o sNewline \o join_lines(Tail(lines))

(***************************************************************************)
(* SpecCommands: execute_commands on every block of command lines.         *)
(***************************************************************************)
MaxLines == 3

CommandLines ==
    {c_says, c_capture, c_unknown, c_unparsable, c_not_callable, c_blank, c_says_keyword}

CommandBlocks == UNION {[1..n -> CommandLines] : n \in 0..MaxLines}

InitCommands ==
    /\ MemoryIdle
    /\ command_string \in CommandBlocks
    /\ api_class = <<>>
    /\ api_description = <<>>
    /\ function_declarations = <<>>
    /\ event_list = <<>>
    /\ tool_calls = <<>>
    /\ d_pc = "start"
    /\ d_idx = 0
    /\ results = <<>>
    /\ image \in {"None", "frame"}
    /\ pending = <<>>
    /\ ret = <<>>
    /\ calls_log = <<>>
    /\ EventsIdle
    /\ LogIdle
    /\ TurnIdle

\* lines 199-201: self.image = None, results = [], the text is split into lines
CommandsBegin ==
    /\ d_pc = "start"
    /\ image' = ImageAtBatchStart(image)
    /\ results' = <<>>
    /\ d_idx' = 1
    /\ d_pc' = "loop"
    /\ UNCHANGED <<event_list, command_string, ret, calls_log, trigger_listen,
                   notCommandVars>>

\* lines 201-244: one line is stripped, parsed, called and its result published
CommandsLine ==
    /\ d_pc = "loop"
    /\ d_idx <= Len(command_string)
    /\ \E behaviour \in BehavioursOfLine(command_string[d_idx]) :
          LET c == CommandOne(command_string[d_idx], behaviour, image)
          IN /\ image' = c.image
             /\ event_list' = IF c.message = <<>> THEN event_list
                               ELSE Append(event_list, Event(API_RESULT, c.message))
             /\ results' = IF c.message = <<>> THEN results
                            ELSE Append(results, c.message)
             /\ calls_log' = Append(calls_log,
                                [idx |-> d_idx, invoked |-> c.invoked,
                                 raised |-> c.raised, behaviour |-> behaviour,
                                 message |-> c.message, args |-> c.valid_args])
             /\ trigger_listen' =
                    (trigger_listen \/ (c.invoked /\ ~c.raised
                        /\ requests_capture(parse_api_call(strip(command_string[d_idx])).function_name)))
             /\ d_idx' = NextLine(d_idx, Len(command_string), c.raised)
    /\ UNCHANGED <<command_string, d_pc, ret, notCommandVars>>

\* line 245: return "\n".join(results), self.image
CommandsReturn ==
    /\ d_pc = "loop"
    /\ d_idx > Len(command_string)
    /\ ret' = <<join_lines(results), image>>
    /\ d_pc' = "returned"
    /\ UNCHANGED <<event_list, command_string, d_idx, results, image, calls_log,
                   trigger_listen, notCommandVars>>

NextCommands == CommandsBegin \/ CommandsLine \/ CommandsReturn

SpecCommands == InitCommands /\ [][NextCommands]_vars

\* the line names no action the capability object has, or cannot be parsed
IsInvalidLine(raw_line) ==
    LET line == strip(raw_line)
    IN line # <<>> /\ (parse_api_call(line).raised
                       \/ ~IsCallableMethod(parse_api_call(line).function_name))

\* C24: in execute_commands the first line that matches no known action ends the
\* processing of the block: no line after it is executed or answered, and an
\* 'invalid call' system event is published.
C24_InvalidLineEndsTheBlock ==
    (d_pc = "returned") =>
        \A k \in DOMAIN command_string :
            IsInvalidLine(command_string[k]) =>
                /\ \A j \in DOMAIN calls_log : calls_log[j].idx <= k
                /\ \E i \in DOMAIN event_list : event_list[i][1] = SYSTEM_MESSAGE

(***************************************************************************)
(* cozmo_api.py: get_api_description, and get_function_declarations, which *)
(* cozmini.py calls and no source file defines.                            *)
(***************************************************************************)
sApiHeader == <<"C", "o", "z", "m", "o", "A", "P", "I", " ", "F", "u", "n", "c", "t", "i", "o", "n", "s", ":", "\n", "\n">>
sSignatureEnd == <<")", ":", "\n">>
sTwoNewlines == <<"\n", "\n">>
n_init == <<"_", "_", "i", "n", "i", "t", "_", "_">>
n_event_calback == <<"_", "e", "v", "e", "n", "t", "_", "c", "a", "l", "b", "a", "c", "k">>
n_doc == <<"_", "_", "d", "o", "c", "_", "_">>
n_cozmo_set_backpack_lights == <<"c", "o", "z", "m", "o", "_", "s", "e", "t", "_", "b", "a", "c", "k", "p", "a", "c", "k", "_", "l", "i", "g", "h", "t", "s">>
p_self == <<"s", "e", "l", "f">>
docSays == <<"M", "a", "k", "e", "s", " ", "C", "o", "z", "m", "o", " ", "s", "a", "y", " ", "t", "h", "e", " ", "p", "r", "o", "v", "i", "d", "e", "d", " ", "t", "e", "x", "t", ".">>
docDrives == <<"M", "a", "k", "e", "s", " ", "C", "o", "z", "m", "o", " ", "d", "r", "i", "v", "e", " ", "s", "t", "r", "a", "i", "g", "h", "t", ".">>
docLights == <<"S", "e", "t", "s", " ", "t", "h", "e", " ", "c", "o", "l", "o", "r", " ", "o", "f", " ", "t", "h", "e", " ", "b", "a", "c", "k", "p", "a", "c", "k", " ", "l", "i", "g", "h", "t", "s", " ", "(", "R", ",", " ", "G", ",", " ", "B", ")", ".">>
docCaptures == <<"M", "a", "k", "e", "s", " ", "C", "o", "z", "m", "o", " ", "t", "a", "k", "e", " ", "a", " ", "p", "i", "c", "t", "u", "r", "e", ".">>
docClass == <<"A", " ", "s", "i", "m", "p", "l", "i", "f", "i", "e", "d", " ", "t", "e", "x", "t", "-", "b", "a", "s", "e", "d", " ", "A", "P", "I", " ", "i", "n", "t", "e", "r", "f", "a", "c", "e", ".">>

\* a member of the class dict: its name, whether it is callable, its docstring
\* (<<>>: none), and co_varnames and co_argcount of its code
Member(name, is_callable, doc, co_varnames, co_argcount) ==
    [name |-> name, callable |-> is_callable, doc |-> doc,
     co_varnames |-> co_varnames, co_argcount |-> co_argcount]

\* members of CozmoAPI (cozmo_api.py lines 32-571), in definition order
ClassMembers ==
    << Member(n_doc, FALSE, docClass, <<>>, 0),
       Member(n_init, TRUE, <<>>, <<p_self, <<"r", "o", "b", "o", "t">>, <<"v", "o", "i", "c", "e", "_", "i", "n", "p", "u", "t">> >>, 3),
       Member(n_event_calback, TRUE, <<>>,
              <<p_self, <<"e", "v", "e", "n", "t">>, <<"e", "v", "e", "n", "t", "_", "t", "y", "p", "e">> >>, 2),
       Member(n_cozmo_says, TRUE, docSays, <<p_self, p_text, <<"a", "c", "t", "i", "o", "n">> >>, 2),
       Member(n_cozmo_drives, TRUE, docDrives,
              <<p_self, p_distance, p_speed, <<"a", "c", "t", "i", "o", "n">> >>, 3),
       Member(n_cozmo_set_backpack_lights, TRUE, docLights,
              <<p_self, <<"R">>, <<"G">>, <<"B">>, <<"l", "i", "g", "h", "t">> >>, 4),
       Member(n_cozmo_captures_image, TRUE, docCaptures, <<p_self, <<"w", "a", "i", "t">> >>, 1) >>

\* ', '.join(names)
RECURSIVE join_names(_)
join_names(names) ==
    IF names = <<>> THEN <<>>
    ELSE IF Tail(names) = <<>> THEN Head(names)
    ELSE Head(names) \o sCommaSpace \o join_names(Tail(names))

\* the local variables of the method taken for arguments too
arg_names_AllVarnames(method) ==
    LET IsNotSelf(arg) == arg # p_self
    IN SelectSeq(method.co_varnames, IsNotSelf)

\* line 25: co_varnames[:co_argcount] without 'self'
arg_names(method) ==
    LET IsNotSelf(arg) == arg # p_self
    IN SelectSeq(SubSeq(method.co_varnames, 1, method.co_argcount), IsNotSelf)

\* line 23: callable(method) and name.startswith('cozmo_')
IsListed(method) == method.callable /\ startswith(method.name, sCozmoPrefix)

\* lines 20-29: the text of the catalog
RECURSIVE describe_members(_)
describe_members(members) ==
    IF members = <<>> THEN <<>>
    ELSE LET method == Head(members)
         IN (IF IsListed(method) /\ method.doc # <<>>
             THEN method.name \o <<"(">> \o join_names(arg_names(method)) \o sSignatureEnd
                  \o method.doc \o sTwoNewlines
             ELSE <<>>)
            \o describe_members(Tail(members))

get_api_description(members) == sApiHeader \o describe_members(members)

\* the ActionSpec of the specification: name, description, and the names of the
\* declared parameters, the receiver left out
ActionSpec(method) ==
    [name |-> method.name, description |-> method.doc,
     parameters |-> Tail(SubSeq(method.co_varnames, 1, method.co_argcount))]

\* get_function_declarations as the specification has it (CapabilitySchema,
\* render_model_schema): one declaration per method whose name follows the
\* action-naming convention
get_function_declarations(members) ==
    LET FollowsConvention(method) ==
            method.callable /\ startswith(method.name, sCozmoPrefix)
        actions == SelectSeq(members, FollowsConvention)
    IN [i \in DOMAIN actions |-> ActionSpec(actions[i])]

(***************************************************************************)
(* SpecCatalog: the two catalogs built for every class made of members of  *)
(* CozmoAPI.                                                               *)
(***************************************************************************)
\* the sub-sequences of seq
RECURSIVE SubSequences(_)
SubSequences(seq) ==
    IF seq = <<>> THEN {<<>>}
    ELSE LET rest == SubSequences(Tail(seq))
         IN rest \cup {<<Head(seq)>> \o r : r \in rest}

NotBuilt == [built |-> FALSE, value |-> <<>>]
Built(value) == [built |-> TRUE, value |-> value]

InitCatalog ==
    /\ MemoryIdle
    /\ api_class \in SubSequences(ClassMembers)
    /\ api_description = NotBuilt
    /\ function_declarations = NotBuilt
    /\ command_string = <<>>
    /\ event_list = <<>>
    /\ EventsIdle
    /\ LogIdle
    /\ DispIdle
    /\ TurnIdle

\* cozmini.py line 20, at import: the tool declarations are built
BuildFunctionDeclarations ==
    /\ ~function_declarations.built
    /\ function_declarations' = Built(get_function_declarations(api_class))
    /\ UNCHANGED <<event_list, eventsVars, logVars, dispVars, turnVars, voiceVars,
                   commandVars, api_class, api_description, memoryVars>>

\* cozmini.py line 326, at startup: the catalog text is put into the instructions
BuildApiDescription ==
    /\ function_declarations.built
    /\ ~api_description.built
    /\ api_description' = Built(get_api_description(api_class))
    /\ UNCHANGED <<event_list, eventsVars, logVars, dispVars, turnVars, voiceVars,
                   commandVars, api_class, function_declarations, memoryVars>>

NextCatalog == BuildFunctionDeclarations \/ BuildApiDescription

SpecCatalog == InitCatalog /\ [][NextCatalog]_vars

\* the heading of an action in the catalog text: 'name(arg, arg):' on a line
SignatureLine(declaration) ==
    sTwoNewlines \o declaration.name \o <<"(">> \o join_names(declaration.parameters)
    \o sSignatureEnd

IsSnakeCase(name) == IsIdentifier(name)

\* the class has an action, or a parameter of one, whose name is not snake_case
HasNonConformingName ==
    \E i \in DOMAIN api_class :
        /\ IsListed(api_class[i])
        /\ \/ ~IsSnakeCase(api_class[i].name)
           \/ \E a \in DOMAIN arg_names(api_class[i]) : ~IsSnakeCase(arg_names(api_class[i])[a])

\* C26: building the catalog of a class that has an action or a parameter whose
\* name is not snake_case raises a configuration error, so no catalog is built
\* from it: every action and parameter name of a built catalog is snake_case.
C26_NonSnakeCaseNameIsConfigurationError ==
    api_description.built => ~HasNonConformingName

\* C27: two outcomes that differ in function name, arguments or success flag never
\* render to the same line with format_tool_call, so that the line read back gives
\* the outcome's name, arguments and success flag.
C27_RenderedLineDeterminesOutcome ==
    \A i, j \in DOMAIN results :
        format_tool_call(results[i]) = format_tool_call(results[j]) =>
            /\ results[i].function_name = results[j].function_name
            /\ results[i].args = results[j].args
            /\ results[i].success = results[j].success

\* iteration k of the batch dispatched last ended in a failure: the call was
\* refused, the method raised or timed out, or the robot reported a failure
ActionFailed(k) ==
    \/ ~calls_log[k].invoked
    \/ calls_log[k].raised
    \/ calls_log[k].behaviour = "failed"

\* the text shows the outcome as a line 'name(args) -> error: reason'
ShowsErrorLine(text, outcome) ==
    /\ contains(format_tool_call(outcome), sArrow \o sErrorColon)
    /\ contains(text, format_tool_call(outcome))

\* C28: every action failure of a turn is in the transcript folded at the end of the
\* turn and in the text given to the Display as a line 'name(args) -> error: reason'.
C28_FailuresShownAsErrorLines ==
    (t_pc = "wait_input" /\ turn > 0) =>
        \A k \in DOMAIN calls_log :
            ActionFailed(k) =>
                /\ ShowsErrorLine(conversation_history, results[k])
                /\ ShowsErrorLine(ui_messages[Len(ui_messages)], results[k])

\* the type a parameter is declared with: cozmo_says(text: str),
\* cozmo_drives(distance: float, speed: float)
DeclaredType(function_name, param_name) ==
    IF function_name = n_cozmo_drives /\ param_name \in {p_distance, p_speed}
    THEN "number" ELSE "string"

\* C29: execute_tool_calls hands each supplied argument to the method coerced per
\* the declared type of its parameter: a numeric parameter receives a number, a
\* string parameter receives the supplied text unchanged.
C29_ArgumentsCoercedPerDeclaredType ==
    \A i \in DOMAIN results :
        results[i].success =>
            \A a \in DOMAIN results[i].args :
                LET param_name == results[i].args[a][1]
                    delivered == results[i].args[a][2]
                    supplied == Get(tool_calls[calls_log[i].idx].args, param_name)
                IN IF DeclaredType(results[i].function_name, param_name) = "number"
                   THEN delivered.kind = "float"
                   ELSE delivered = supplied

(***************************************************************************)
(* SpecLogSequential: message and pop_all_events called one after another, *)
(* by any caller, each call running to its end before the next starts.     *)
(***************************************************************************)
NoCallInProgress == \A t \in LogThreads : thr[t].pc = "idle"

NextLogSequential ==
    \E t \in LogThreads :
        \/ NoCallInProgress /\ MessageLoad(t)
        \/ MessageAppend(t)
        \/ MessageCallbacks(t)
        \/ NoCallInProgress /\ PopLen(t)
        \/ PopSlice(t)
        \/ PopRest(t)
        \/ PopStore(t)

SpecLogSequential == InitLog /\ [][NextLogSequential]_vars

\* C30: when message and pop_all_events are called one after another, every
\* pop_all_events returns exactly the events appended since the pop before it, in
\* the order of the appends, and leaves the pending list empty, so that a pop
\* repeated at once returns nothing: no drained event stays in the log.
C30_SequentialPopReturnsAllAndEmpties ==
    /\ [](NoCallInProgress => Flatten(returned) \o event_list = appended)
    /\ [][\A t \in LogThreads :
            (thr[t].pc = "store" /\ thr'[t].pc = "idle") =>
                /\ event_list' = <<>>
                /\ Flatten(returned') = appended]_vars

\* two events were appended, a pop returned both, and the pop right after it
\* returned nothing
C30_Witness ==
    /\ NoCallInProgress
    /\ Len(appended) = 2
    /\ Len(returned) = 2
    /\ returned[1] = appended
    /\ returned[2] = <<>>
    /\ event_list = <<>>

\* the messages of the lines handled so far, one for each line that published one
AnsweredMessages(log) ==
    LET answered == SelectSeq(log, LAMBDA c : c.message # <<>>)
    IN [i \in DOMAIN answered |-> answered[i].message]

\* every line that published a message added one entry to results and one
\* API_RESULT event to the log, in the order of the lines
OneResultPerAnsweredLine ==
    /\ results = AnsweredMessages(calls_log)
    /\ event_list = [i \in DOMAIN results |-> Event(API_RESULT, results[i])]

\* the line is a call of a name the capability object does not have
NamesMissingFunction(raw_line) ==
    LET parsed == parse_api_call(strip(raw_line))
    IN strip(raw_line) # <<>> /\ ~parsed.raised /\ ~hasattr(parsed.function_name)

\* C31: in execute_commands a line that names a function the capability object
\* does not have is answered by exactly one result entry and one API_RESULT event,
\* and that entry is the dispatch error saying that the function does not exist.
C31_MissingFunctionReportedAsNonExistent ==
    (d_pc \in {"loop", "returned"}) =>
        /\ OneResultPerAnsweredLine
        /\ \A j \in DOMAIN calls_log :
              NamesMissingFunction(command_string[calls_log[j].idx]) =>
                 LET line == strip(command_string[calls_log[j].idx])
                 IN calls_log[j].message =
                        FunctionDoesNotExistMessage(line, parse_api_call(line).function_name)

\* the keyword arguments written on a line that calls a method of the object
WrittenKeywords(raw_line) ==
    LET line == strip(raw_line)
        opens == {i \in DOMAIN line : line[i] = "("}
    IN IF line = <<>> \/ parse_api_call(line).raised
          \/ ~IsCallableMethod(parse_api_call(line).function_name)
       THEN <<>>
       ELSE KeywordsOf(SubSeq(line, (CHOOSE i \in opens : \A j \in opens : i <= j) + 1,
                              Len(line) - 1))

\* C32: in execute_commands a keyword argument written as key=value on a call line
\* is parsed with its key and passed to the method the line calls: the parser drops
\* no argument written on the line.
C32_KeywordArgumentsReachTheMethod ==
    \A j \in DOMAIN calls_log :
        LET written == WrittenKeywords(command_string[calls_log[j].idx])
        IN \A k \in DOMAIN written :
              /\ calls_log[j].invoked
              /\ \E a \in DOMAIN calls_log[j].args : calls_log[j].args[a] = written[k]

(***************************************************************************)
(* SpecDispatchObservers: execute_tool_calls when the callbacks registered *)
(* with add_callback are arbitrary: any of them may raise for any event.   *)
(* EventMessages.message has appended the event before it calls them, and  *)
(* lets their exception out into execute_tool_calls.                       *)
(***************************************************************************)
sObserverFailed == <<"o", "b", "s", "e", "r", "v", "e", "r", " ", "f", "a", "i", "l", "e", "d">>

\* the callback that raises for an event: a position in event_callbacks, 0 for none
AnyRaiser == {0} \cup DOMAIN event_callbacks

\* lines 170-171 and 182-184 with event_log.message (event_messages.py lines 21-24):
\* the event is appended, then the callbacks run.  An exception out of line 170 is
\* caught at line 173, which builds a failure dict and publishes again at line 182;
\* an exception out of line 182 leaves execute_tool_calls.
ExecRecordObserved ==
    /\ d_pc = "record"
    /\ event_list' = publish_result(event_list, pending)
    /\ \E raiser \in AnyRaiser :
          IF ~notify(event_callbacks, raiser).propagated
          THEN /\ results' = AppendOutcome(results, pending)
               /\ d_idx' = NextIndex(d_idx, Len(tool_calls), pending)
               /\ d_pc' = "loop"
               /\ pending' = pending
          ELSE IF pending.success
          THEN /\ pending' = FailureOutcome(tool_calls[d_idx].name, tool_calls[d_idx].args,
                                            sObserverFailed)
               /\ d_pc' = "record"
               /\ UNCHANGED <<results, d_idx>>
          ELSE /\ d_pc' = "raised"
               /\ UNCHANGED <<results, d_idx, pending>>
    /\ UNCHANGED <<tool_calls, image, ret, calls_log, trigger_listen, notDispVars>>

NextDispatchObservers == ExecBegin \/ ExecCall \/ ExecRecordObserved \/ ExecReturn

SpecDispatchObservers == InitDispatch /\ [][NextDispatchObservers]_vars

\* C33: for every batch the API_RESULT events appended during execute_tool_calls
\* match the outcomes one to one and in order: each tool call handled so far has
\* produced exactly one event and exactly one outcome, whatever the registered
\* observers do.
C33_OneEventPerOutcome ==
    (d_pc \in {"loop", "returned", "raised"}) =>
        /\ event_list = [i \in DOMAIN results |->
                            Event(API_RESULT, format_tool_call(results[i]))]
        /\ Len(results) = Len(calls_log)
        /\ d_pc # "raised"

\* the drained events that are no API_RESULT events
WithoutResults(events) == SelectSeq(events, LAMBDA e : e[1] # API_RESULT)

\* C34: the API_RESULT events that process_events drains add no text to the
\* rendered context, so an action outcome enters the transcript once, through the
\* fold of the turn that produced it, and is not repeated in the next prompt.
C34_OutcomesNotRenderedAgain ==
    /\ (t_pc \in {"generate", "dispatch", "fold"}) =>
          /\ event_context = process_events(WithoutResults(drained), sNow).context
          /\ \A i \in DOMAIN drained :
                drained[i][1] = API_RESULT => ~contains(new_prompt, strip(drained[i][2]))
    /\ (t_pc = "wait_input" /\ turn >= 1) =>
          /\ endswith(conversation_history, new_prompt \o result_message(results))
          /\ \A i \in DOMAIN results :
                ~contains(new_prompt, strip(format_tool_call(results[i])))

\* the second turn has drained the API_RESULT events of the first and built its
\* prompt
C34_Witness ==
    /\ turn = 1
    /\ t_pc = "generate"
    /\ \E i \in DOMAIN drained : drained[i][1] = API_RESULT
    /\ results # <<>>

(***************************************************************************)
(* SpecDrains: process_events called again and again, with events          *)
(* published between the calls.                                            *)
(***************************************************************************)
MaxPublished == 3
MaxProcessCalls == 2

PublishedEvents ==
    {Event(SYSTEM_MESSAGE, sLow), Event(SYSTEM_MESSAGE, sBye), Event(USER_MESSAGE, sHi)}

InitDrains ==
    /\ MemoryIdle
    /\ CommandIdle
    /\ event_list = <<>>
    /\ event_context = <<>>
    /\ stop = FALSE
    /\ drained = <<>>
    /\ pe_pc = "call"
    /\ g_system_messages = {}
    /\ list_gen = 0
    /\ thr = <<>>
    /\ appended = <<>>
    /\ returned = <<>>
    /\ n_calls = [message |-> 0, pop_all_events |-> 0]
    /\ DispIdle
    /\ TurnIdle

\* event_log.message between two calls of process_events
DrainsMessage ==
    /\ n_calls.message < MaxPublished
    /\ \E e \in PublishedEvents :
          /\ event_list' = Append(event_list, e)
          /\ appended' = Append(appended, e)
    /\ n_calls' = [n_calls EXCEPT !.message = @ + 1]
    /\ UNCHANGED <<eventsVars, list_gen, thr, returned, dispVars, turnVars, voiceVars,
                   commandVars, catalogVars, memoryVars>>

\* cozmini.py lines 111-150: one call of process_events
DrainsProcess ==
    /\ n_calls.pop_all_events < MaxProcessCalls
    /\ LET r == process_events(event_list, sNow)
       IN /\ event_context' = r.context
          /\ stop' = r.stop
          /\ g_system_messages' = r.system_messages
    /\ drained' = event_list
    /\ returned' = Append(returned, event_list)
    /\ event_list' = <<>>
    /\ pe_pc' = "done"
    /\ n_calls' = [n_calls EXCEPT !.pop_all_events = @ + 1]
    /\ UNCHANGED <<list_gen, thr, appended, dispVars, turnVars, voiceVars, commandVars,
                   catalogVars, memoryVars>>

NextDrains == DrainsMessage \/ DrainsProcess

SpecDrains == InitDrains /\ [][NextDrains]_vars

\* the texts of the SYSTEM_MESSAGE events of a batch, as process_events compares them
SystemTexts(events) ==
    {strip(events[i][2]) : i \in {j \in DOMAIN events : events[j][1] = SYSTEM_MESSAGE}}

\* C35: the suppression of repeated system messages does not outlast one drain: a
\* SYSTEM_MESSAGE text that an earlier process_events call rendered is rendered
\* again, once, when a later call drains the same text.
C35_SystemMessageRenderedAgainInLaterDrain ==
    pe_pc = "done" =>
        \A k \in 1..(Len(returned) - 1) :
            \A text \in SystemTexts(returned[k]) \cap SystemTexts(drained) :
                Cardinality(Occurrences(event_context, SystemLine(text))) = 1

\* the same system message was drained by the first call and by the second, and
\* the second call rendered it
C35_Witness ==
    /\ pe_pc = "done"
    /\ returned = << <<Event(SYSTEM_MESSAGE, sLow)>>, <<Event(SYSTEM_MESSAGE, sLow)>> >>
    /\ drained = <<Event(SYSTEM_MESSAGE, sLow)>>
    /\ event_context = SystemLine(sLow)

\* the names of a sequence of (name, value) pairs, in order
NamesOf(args) == [i \in DOMAIN args |-> args[i][1]]

\* the parameters the method declares for which the call supplies a value, in the
\* order of the signature
DeclaredAndSupplied(call) ==
    LET supplied == SelectSeq(getattr(call.name).params,
                              LAMBDA param : HasKey(call.args, param.name))
    IN [i \in DOMAIN supplied |-> supplied[i].name]

\* the call supplies an argument whose name the method does not declare
HasUndeclaredArgument(call) ==
    /\ IsCallableMethod(call.name)
    /\ \E i \in DOMAIN call.args :
          \A j \in DOMAIN getattr(call.name).params :
              getattr(call.name).params[j].name # call.args[i][1]

\* C36: on a successful call execute_tool_calls passes to the method, and records
\* in the outcome's args, exactly the supplied arguments whose names the method
\* declares; a supplied argument with an undeclared name is dropped, causes no
\* failure, and the method is still invoked.
C36_OnlyDeclaredArgumentsPassed ==
    /\ \A i \in DOMAIN results :
          results[i].success =>
              /\ NamesOf(results[i].args) = DeclaredAndSupplied(tool_calls[i])
              /\ \E k \in IterationsOf(i) : calls_log[k].invoked
    /\ \A k \in DOMAIN calls_log :
          LET call == tool_calls[calls_log[k].idx]
          IN (HasUndeclaredArgument(call) /\ ~OmitsRequiredParameter(call)) =>
                 calls_log[k].invoked

\* cozmo_says(text='hi', x='1') succeeded and its outcome records text only
C36_Witness ==
    /\ d_pc = "returned"
    /\ tool_calls = <<ToolCall(n_cozmo_says, << <<p_text, PyStr(sHi)>>, <<p_x, PyStr(sOne)>> >>)>>
    /\ ret[1][1].success
    /\ NamesOf(ret[1][1].args) = <<p_text>>
    /\ calls_log[1].invoked

\* the API_RESULT event execute_tool_calls publishes for a cozmo_listens call, which
\* called VoiceInput.capture_user_input (cozmo_api.py lines 67-76)
ListenRequested ==
    Event(API_RESULT,
          format_tool_call(SuccessOutcome(n_cozmo_listens, <<>>, PyStr(<<>>))))

\* a recording of _record_audio began after the event at position r was published
RecordingBeganAfter(r) ==
    \E j \in DOMAIN event_list : j > r /\ event_list[j][1] = VOICE_EVENT_LISTENING

\* C37: a capture requested through capture_user_input is served by a _listen cycle
\* of the voice thread: as long as no recording has begun since the request,
\* trigger_listen stays true, also when a wake-word capture that was in flight at
\* the request ends and resets trigger_listen.
C37_CaptureRequestNotLost ==
    \A r \in DOMAIN event_list :
        (event_list[r] = ListenRequested /\ ~RecordingBeganAfter(r)) => trigger_listen

(***************************************************************************)
(* SpecVoiceFailure: the voice thread when _listen can raise, and the turn *)
(* loop seen from VoiceInput: it calls wait_input_finish, then runs a turn *)
(* that may call capture_user_input.  wait_keyword_loop has no try         *)
(* statement: an exception out of _listen ends the thread.  Both threads   *)
(* keep running as long as they have a step to take.                       *)
(***************************************************************************)
\* _listen, lines 166-177, raising: a callback of event_log.message in _record_audio,
\* speech_client.recognize in _transcribe_audio, or match_by_voice in
\* _identify_speaker; the exception leaves wait_keyword_loop (lines 237-259)
VoiceListenRaises ==
    /\ v_pc \in {"record", "recording", "transcribe"}
    /\ v_pc' = "dead"
    /\ UNCHANGED <<event_list, eventsVars, dispVars, turnVars, trigger_listen, v_capture,
                   n_inputs, notTurnVars>>

\* the steps of the voice thread once a capture has begun or was requested
VoiceThreadStep ==
    VoiceTriggered \/ VoiceRecordStart \/ VoiceRecordEnd \/ VoicePublish \/ VoiceReset

\* cozmini.py lines 366-398, one turn reduced to what it does to VoiceInput: the
\* batch it executes may hold cozmo_listens, which calls capture_user_input
\* (user_voice_input.py line 159: self.trigger_listen = True)
VoiceTurnRuns ==
    /\ t_pc = "process_events"
    /\ \E listens \in BOOLEAN : trigger_listen' = (trigger_listen \/ listens)
    /\ turn' = turn + 1
    /\ t_pc' = "wait_input"
    /\ UNCHANGED <<event_list, eventsVars, dispVars, new_prompt, attempt_log, slept,
                   gen_ret, t_image, conversation_history, history, ui_messages,
                   v_pc, v_capture, n_inputs, notTurnVars>>

\* the steps of the turn loop
TurnLoopStep == LoopWaitInputFinish \/ VoiceTurnRuns

NextVoiceFailure ==
    \/ VoiceWakeWord
    \/ VoiceTriggered
    \/ VoiceRecordStart
    \/ VoiceRecordEnd
    \/ VoicePublish
    \/ VoiceReset
    \/ VoiceListenRaises
    \/ LoopWaitInputFinish
    \/ VoiceTurnRuns

SpecVoiceFailure ==
    /\ InitTurn
    /\ [][NextVoiceFailure]_vars
    /\ WF_vars(VoiceThreadStep \/ VoiceListenRaises)
    /\ WF_vars(TurnLoopStep)

\* C38: wait_input_finish always returns in the end: every capture that sets
\* trigger_listen to true resets it to false later, also when the recording, the
\* transcription or the speaker identification fails in the voice thread.
C38_TriggerListenAlwaysReset ==
    trigger_listen ~> ~trigger_listen

(***************************************************************************)
(* cozmini.py: consolidate_memory.  A file is a record: whether it exists, *)
(* and its text.                                                           *)
(***************************************************************************)
sErrorWord == <<"E", "r", "r", "o", "r">>
sErrorReply == <<"E", "r", "r", "o", "r", ":", " ", "q", "u", "o", "t", "a">>
sOldMemory == <<"o", "w", "n", "s", " ", "c", "a", "t">>
sShortMemory == <<"c", "a", "t">>
sNewMemory == <<"o", "w", "n", "s", " ", "a", " ", "d", "o", "g">>
sSessionLog == <<"U", "s", "e", "r", " ", "s", "a", "y", "s", ":", " ", "h", "i">>
sPromptTemplate == <<"{", "P", "R", "E", "V", "I", "O", "U", "S", "_", "M", "E", "M", "O", "R", "Y", "}", "{", "S", "E", "S", "S", "I", "O", "N", "_", "L", "O", "G", "}">>
sConsolidationFailed == <<"f", "a", "i", "l", "e", "d">>

File(text) == [exists |-> TRUE, text |-> text]
Missing == [exists |-> FALSE, text |-> <<>>]

\* lines 187-192: the memory file read and stripped; "" when there is none
read_previous_memory(fs) == IF fs.memory.exists THEN strip(fs.memory.text) ELSE <<>>

\* lines 232-238: the texts of the parts joined, then stripped
new_memory_of(reply) == strip(OutputOf(reply.parts))

\* no reply is ever taken as too short
too_short_Never(new_memory, previous_memory) == FALSE

\* lines 247-248: len(new_memory) < len(previous_memory) * 0.5 and previous_memory
too_short(new_memory, previous_memory) ==
    2 * Len(new_memory) < Len(previous_memory) /\ previous_memory # <<>>

\* lines 171-284.  reply: what generate_content answers or raises; io: whether
\* the writes of lines 264-265, 270-271 and 274-275 succeed.  An open(..., 'w') that
\* raises leaves the file as it was; a write that raises leaves it truncated.
consolidate_memory(fs, reply, io) ==
    LET previous_memory == read_previous_memory(fs)
        kept == [files |-> fs, ret |-> previous_memory]
        reported(f) == [files |-> [f EXCEPT !.error = File(sConsolidationFailed)],
                        ret |-> previous_memory]
    IN IF ~fs.history.exists THEN kept
       ELSE IF strip(fs.history.text) = <<>> THEN kept
       ELSE IF ~fs.prompt.exists THEN reported(fs)
       ELSE IF reply.kind = "raise" THEN reported(fs)
       ELSE LET new_memory == new_memory_of(reply)
            IN IF startswith(new_memory, sErrorWord) THEN reported(fs)
               ELSE IF too_short(new_memory, previous_memory) THEN reported(fs)
               ELSE IF new_memory = <<>> THEN kept
               ELSE LET backed == IF previous_memory # <<>> /\ io.backup = "ok"
                                  THEN [fs EXCEPT !.backup = File(previous_memory)]
                                  ELSE fs
                        written == [backed EXCEPT !.memory = File(new_memory)]
                    IN IF io.memory = "open raises" THEN reported(backed)
                       ELSE IF io.memory = "write raises"
                       THEN reported([backed EXCEPT !.memory = File(<<>>)])
                       ELSE IF io.clear = "open raises" THEN reported(written)
                       ELSE [files |-> [written EXCEPT !.history = File(<<>>)],
                             ret |-> new_memory]

(***************************************************************************)
(* SpecMemory: consolidate_memory on every state of its files, with every  *)
(* answer of the model and every outcome of its writes.                    *)
(***************************************************************************)
MemoryFiles == {Missing, File(<<>>), File(sOldMemory \o sNewline)}
HistoryFiles == {Missing, File(<<" ", "\n">>), File(sSessionLog \o sNewline)}
PromptFiles == {Missing, File(sPromptTemplate)}

MemoryReplies ==
    { Raises,
      Response(<<>>),
      Response(<<TextPart(sErrorReply)>>),
      Response(<<TextPart(sShortMemory)>>),
      Response(<<TextPart(sShortMemory), TextPart(<<"s">>)>>),
      Response(<<TextPart(<<" ">> \o sNewMemory \o sNewline)>>) }

WriteOutcomes ==
    [backup : {"ok", "raises"}, memory : {"ok", "open raises", "write raises"},
     clear : {"ok", "open raises"}]

InitMemory ==
    /\ files \in [memory : MemoryFiles, history : HistoryFiles, prompt : PromptFiles,
                  error : {Missing}, backup : {Missing}]
    /\ files0 = files
    /\ cm = [pc |-> "start"]
    /\ event_list = <<>>
    /\ CommandIdle
    /\ EventsIdle
    /\ LogIdle
    /\ DispIdle
    /\ TurnIdle

\* cozmini.py line 321: memory_content = consolidate_memory()
ConsolidateCall ==
    /\ cm.pc = "start"
    /\ \E reply \in MemoryReplies, io \in WriteOutcomes :
          LET r == consolidate_memory(files, reply, io)
          IN /\ files' = r.files
             /\ cm' = [pc |-> "returned", reply |-> reply, io |-> io, ret |-> r.ret]
    /\ UNCHANGED <<files0, event_list, eventsVars, logVars, dispVars, turnVars, voiceVars,
                   commandVars, catalogVars>>

NextMemory == ConsolidateCall

SpecMemory == InitMemory /\ [][NextMemory]_vars

\* the call met one of the rejections or failures: no history file or an empty one,
\* no prompt file, the model call raised, or its answer is empty, starts with
\* 'Error' or is shorter than half of the previous memory
Rejected ==
    LET previous_memory == read_previous_memory(files0)
    IN \/ ~files0.history.exists
       \/ strip(files0.history.text) = <<>>
       \/ ~files0.prompt.exists
       \/ cm.reply.kind = "raise"
       \/ new_memory_of(cm.reply) = <<>>
       \/ startswith(new_memory_of(cm.reply), sErrorWord)
       \/ 2 * Len(new_memory_of(cm.reply)) < Len(previous_memory)

\* C39: consolidate_memory clears the conversation history only after a new,
\* non-empty memory was written to the memory file; on every rejection or failure
\* (no or empty history, no prompt file, empty answer, answer starting with
\* 'Error', answer shorter than half of the previous memory, the model call
\* raising) the memory file and the history are as before and the previous memory
\* is returned.
C39_HistoryClearedOnlyAfterMemoryWritten ==
    cm.pc = "returned" =>
        /\ (files.history # files0.history) =>
               /\ files.memory = File(new_memory_of(cm.reply))
               /\ files.memory.text # <<>>
               /\ cm.ret = files.memory.text
        /\ Rejected =>
               /\ files.memory = files0.memory
               /\ files.history = files0.history
               /\ cm.ret = read_previous_memory(files0)

\* a session log was consolidated into a new memory over an old one: the memory
\* file holds the new memory and the history file is empty
C39_Witness ==
    /\ cm.pc = "returned"
    /\ files0.memory = File(sOldMemory \o sNewline)
    /\ files0.history = File(sSessionLog \o sNewline)
    /\ files.memory = File(sNewMemory)
    /\ files.history = File(<<>>)
    /\ files.backup = File(sOldMemory)
    /\ cm.ret = sNewMemory

====
